---------------------------- MODULE Spec2Model ----------------------------
(***************************************************************************)
(* Analysis pipeline of NewSystem.AI: frame sampler, GPT-4V client with    *)
(* retry/backoff, result normaliser and the orchestrator that sequences    *)
(* them.                                                                   *)
(*                                                                         *)
(* Conventions of the model                                                *)
(*  - A frame rate is an exact rational [num, den].  The target rates of   *)
(*    the model (1/2, 1, 2, 33/100) and the native rates (1, 2, 30) are    *)
(*    values on which the float arithmetic of the source is exact, so      *)
(*    int(x) of the source is the floor division used here.                *)
(*  - A JSON value of the model's reply is a tagged record: Num(n),        *)
(*    Str(s), NoneV (null) and Missing (the key is absent).                *)
(*  - A Python exception raised inside an operator is the record           *)
(*    Raise(msg); the enclosing try/except of the source decides what      *)
(*    becomes of it.                                                       *)
(***************************************************************************)
EXTENDS Integers, Sequences, FiniteSets, TLC

\* ------------------------------------------------------------------ bounds
\* Longest recording (seconds) and longest video (frames) of the small cases.
MaxDuration == 4
MaxTotalFrames == 6
\* Longest list of workflows / opportunities in a reply, highest frame number
\* and longest visible_in_frames list.
MaxItems == 2
MaxFrameNo == 3
MaxFrameListLen == 3
MaxOpportunities == 2
\* Longest of the short frame lists passed to the vision client.
MaxClientFrames == 2
\* The long recording (seconds = frames at 1 fps), longer than the extractor's
\* own frame limit.
LongDuration == 70

\* ------------------------------------------------- program constants
\* gpt4v_client.py: self.max_retries, self.retry_delay
max_retries == 3
retry_delay == 2
\* frame_extractor.py: self.max_frames per FRAME_EXTRACTION_MODE
TestingInstanceMaxFrames == 60
ProductionInstanceMaxFrames == 30
\* frame_extractor.py: "target_frames": max(5, target_frames)
MinTargetFrames == 5
\* config.py: DEFAULT_MAX_FRAMES_PER_VIDEO, and the fallback native rate
DEFAULT_MAX_FRAMES_PER_VIDEO == 120
FallbackFps == 30
MaxValidFps == 120
DEFAULT_HOURLY_RATE == 25
\* config.py: DEFAULT_SCENE_CHANGE_THRESHOLD = 0.2, in hundredths
DEFAULT_SCENE_CHANGE_THRESHOLD == 20

Min(a, b) == IF a <= b THEN a ELSE b
Max(a, b) == IF a >= b THEN a ELSE b

Rate(n, d) == [num |-> n, den |-> d]
\* config.py: DEFAULT_FRAMES_PER_SECOND = 1.0, presets["quick"] = 0.33 / 50 / 0.3
DEFAULT_FRAMES_PER_SECOND == Rate(1, 1)
QuickPreset == [fps |-> Rate(33, 100), max_frames |-> 50, scene_threshold |-> 30]

\* The outcome of a call: a value, or a Python exception travelling up the
\* call stack.
Ok(v) == [raised |-> FALSE, exc |-> "", val |-> v]
Raise(msg) == [raised |-> TRUE, exc |-> msg, val |-> << >>]

VARIABLES
    \* ---- the recording and the request
    video,            \* the decoded source: raw_fps, total_frames, unreadable, ...
    request,          \* duration_seconds, extraction_settings, mode
    has_client,       \* GPT4VClient.client is not None (an API key is configured)
    \* ---- GPT4VClient._call_with_retry
    attempt,          \* the loop variable
    response,         \* the response the endpoint returned, NoResponse before
    messages,         \* the request _prepare_messages built: frames given and embedded
    call_log,         \* the outcome of every invocation of the endpoint, in order
    sleeps,           \* every delay passed to asyncio.sleep, in order
    \* ---- AnalysisOrchestrator.analyze_recording
    pipeline_status,  \* steps_completed
    invoked,          \* the stages called so far, in order
    frame_result,     \* what extract_frames_from_recording returned
    gpt_result,       \* what analyze_frames returned
    parsed_result,    \* what parse_analysis_result returned
    result,           \* what analyze_recording returned (or let escape)
    pc,
    \* ---- the caller of the run
    cancelled,        \* the recording of the run was deleted while it ran
    \* ---- ROICalculator.calculate_roi
    roi_request,      \* analysis_results, hourly_rate, implementation_budget
    roi_result,       \* what calculate_roi returned
    \* ---- two runs on the one event loop of the process
    runs,             \* per run: its session, its position, its frames, its result
    extractor,        \* the FrameExtractor singleton and its temporary directory
    loop_owner,       \* the run that holds the event loop, 0 when it is free
    \* ---- api/v1/analysis.py
    analysis_record,  \* the row of analysis_results: status, error_message, results
    background_tasks  \* the BackgroundTasks objects built, with their tasks

\* The state outside the pipeline run.
ext == <<cancelled, roi_request, roi_result, runs, extractor, loop_owner,
         analysis_record, background_tasks>>

vars == <<video, request, has_client, attempt, response, messages, call_log, sleeps,
          pipeline_status, invoked, frame_result, gpt_result, parsed_result, result, pc,
          cancelled, roi_request, roi_result, runs, extractor, loop_owner,
          analysis_record, background_tasks>>

\* ------------------------------------------------------------------ sampler

\* frame_extractor.py __init__: the extractor's own frame limit.
InstanceMaxFrames(mode) ==
    IF mode = "testing" THEN TestingInstanceMaxFrames ELSE ProductionInstanceMaxFrames

\* _calculate_extraction_strategy.  settings is NoSettings or a record with
\* fps and max_frames (a key the caller left out carries the default).
NoSettings == [given |-> FALSE]
Settings(f, m) ==
    [ given |-> TRUE, fps |-> f, max_frames |-> m,
      scene_threshold |-> DEFAULT_SCENE_CHANGE_THRESHOLD ]

StrategyFps(settings, mode) ==
    IF settings.given THEN settings.fps
    ELSE IF mode = "testing" THEN DEFAULT_FRAMES_PER_SECOND
    ELSE QuickPreset.fps

StrategyMaxFrames(settings, mode) ==
    IF settings.given THEN settings.max_frames
    ELSE IF mode = "testing" THEN DEFAULT_MAX_FRAMES_PER_VIDEO
    ELSE QuickPreset.max_frames

StrategySceneThreshold(settings, mode) ==
    IF settings.given THEN settings.scene_threshold
    ELSE IF mode = "testing" THEN DEFAULT_SCENE_CHANGE_THRESHOLD
    ELSE QuickPreset.scene_threshold

\* (mutant: scene detection is switched on again)
SceneDetectionEnabled == TRUE
\* "scene_detection": False  (line 286)
SceneDetection == FALSE

\* int(a / b) for b > 0: Python's int() truncates towards zero.
IntTrunc(a, b) == IF a >= 0 THEN a \div b ELSE -((-a) \div b)

\* target_frames = min(max_frames, int(duration_seconds * frames_per_second));
\* the strategy carries max(5, target_frames).
StrategyTargetFrames(max_frames, duration_seconds, fps) ==
    Max(MinTargetFrames, Min(max_frames, IntTrunc(duration_seconds * fps.num, fps.den)))

calculate_extraction_strategy(duration_seconds, settings, mode) ==
    LET fps == StrategyFps(settings, mode)
        mf  == StrategyMaxFrames(settings, mode)
    IN  [ frames_per_second |-> fps,
          target_frames     |-> StrategyTargetFrames(mf, duration_seconds, fps),
          max_frames        |-> mf,
          scene_threshold   |-> StrategySceneThreshold(settings, mode),
          duration_seconds  |-> duration_seconds,
          scene_detection   |-> SceneDetection ]

\* fps = cap.get(CAP_PROP_FPS); invalid or above 120 falls back to 30.
NativeFps(raw_fps) ==
    IF raw_fps <= 0 \/ raw_fps > MaxValidFps THEN FallbackFps ELSE raw_fps

\* frame_index = int(time_position * fps), time_position = i * interval_seconds.
FrameIndexAt(i, fps, nfps) == (i * fps.den * nfps) \div fps.num

\* time_position >= video_duration, video_duration = total_frames / fps.
PastEnd(i, fps, nfps, total_frames) == i * fps.den * nfps >= total_frames * fps.num

\* The first loop of _extract_frames_smart: the candidate indices, from
\* position i on.
RECURSIVE CandidateIndices(_, _, _, _, _)
CandidateIndices(i, target_frames, fps, nfps, total_frames) ==
    IF i >= target_frames \/ PastEnd(i, fps, nfps, total_frames) THEN << >>
    ELSE LET fi   == FrameIndexAt(i, fps, nfps)
             rest == CandidateIndices(i + 1, target_frames, fps, nfps, total_frames)
         IN  IF fi < total_frames THEN <<fi>> \o rest ELSE rest

\* The frame limit the second loop stops at.
FrameLimit(strategy, mode) == InstanceMaxFrames(mode)

\* Lines 404-408: with scene detection on, a frame that differs from the last
\* frame kept by less than self.min_scene_change_threshold is skipped.  The
\* frames of a video differ from one another by v.change_ratio; threshold is
\* the value of the extractor's field when the loop runs.
SkipsFrame(strategy, acc, v, threshold) ==
    strategy.scene_detection /\ acc # << >> /\ v.change_ratio < threshold

\* The second loop of _extract_frames_smart: read each candidate, skip the
\* unreadable ones, stop at the frame limit.  acc is frames_data so far; a
\* frame whose preparation fails raises out of the loop.
RECURSIVE ReadFrames(_, _, _, _, _, _, _, _)
ReadFrames(cands, idx, acc, v, nfps, limit, strategy, threshold) ==
    IF idx > Len(cands) THEN Ok(acc)
    ELSE LET fi == cands[idx] IN
         IF fi \in v.unreadable \/ SkipsFrame(strategy, acc, v, threshold)
           THEN ReadFrames(cands, idx + 1, acc, v, nfps, limit, strategy, threshold)
         ELSE IF fi \in v.unpreparable
           THEN Raise("frame preparation failed")
         ELSE LET acc2 == Append(acc, [ sequence_number |-> idx - 1,
                                        frame_index     |-> fi,
                                        fps             |-> nfps,
                                        image_base64    |-> TRUE ])
              IN  IF Len(acc2) >= limit THEN Ok(acc2)
                  ELSE ReadFrames(cands, idx + 1, acc2, v, nfps, limit, strategy, threshold)

\* _extract_frames_smart: the list of frames, or an exception.  threshold is
\* self.min_scene_change_threshold as the loop finds it.
extract_frames_smart(v, strategy, mode, threshold) ==
    LET nfps == NativeFps(v.raw_fps) IN
    IF v.total_frames = 0 THEN Ok(<< >>)
    ELSE ReadFrames(CandidateIndices(0, strategy.target_frames,
                                     strategy.frames_per_second, nfps, v.total_frames),
                    1, << >>, v, nfps, FrameLimit(strategy, mode), strategy, threshold)

\* extract_frames_from_recording: the download, the strategy, the frames; any
\* exception becomes {"error": str(e), "frame_count": 0, "frames": []}.  With
\* no other run in between, the threshold the loop finds is the one line 276
\* has just stored.
extract_frames_from_recording(v, req) ==
    IF ~v.downloads
      THEN [has_error |-> TRUE, error |-> "Failed to download recording", frames |-> << >>]
    ELSE LET strategy == calculate_extraction_strategy(req.duration_seconds,
                                                       req.extraction_settings, req.mode)
             out      == extract_frames_smart(v, strategy, req.mode,
                                              strategy.scene_threshold)
         IN  IF out.raised
               THEN [has_error |-> TRUE, error |-> out.exc, frames |-> << >>]
               ELSE [has_error |-> FALSE, error |-> "", frames |-> out.val]

\* ---------------------------------------------------- inputs of the sampler
TargetRates == {Rate(1, 2), Rate(1, 1), Rate(2, 1), Rate(33, 100)}
RawFpsValues == {0, 1, 2, 30}
MaxFramesValues == {1, 2, 5, 6, DEFAULT_MAX_FRAMES_PER_VIDEO}
ExtractionSettings ==
    {NoSettings} \cup {Settings(f, m) : f \in TargetRates, m \in MaxFramesValues}
Modes == {"testing", "production"}

Videos ==
    [ raw_fps      : RawFpsValues,
      total_frames : 0..MaxTotalFrames,
      unreadable   : {{}, {0}, {1, 2}, 0..MaxTotalFrames},
      unpreparable : {{}, {1}},
      change_ratio : {25},
      downloads    : BOOLEAN ]

Requests ==
    [ duration_seconds    : 1..MaxDuration,
      extraction_settings : ExtractionSettings,
      mode                : Modes ]

\* One long recording, so that the extractor's own frame limit is reached.
LongVideo ==
    [ raw_fps |-> 1, total_frames |-> LongDuration, unreadable |-> {},
      unpreparable |-> {}, change_ratio |-> 25, downloads |-> TRUE ]
LongRequests ==
    [ duration_seconds    : {LongDuration},
      extraction_settings : {NoSettings, Settings(Rate(1, 1), 2),
                             Settings(Rate(2, 1), DEFAULT_MAX_FRAMES_PER_VIDEO)},
      mode                : Modes ]

NoResult == [has_error |-> FALSE, error |-> "not run", frames |-> << >>]

\* --------------------------------------------------------------- normaliser
\* JSON values of the model's reply.  Numbers are integers: a score is in
\* thousandths (0.5 is 500), a time percentage in tenths of a percent, minutes
\* and frame numbers are whole.
Num(n) == [t |-> "num", v |-> n, s |-> ""]
Str(x) == [t |-> "str", v |-> 0, s |-> x]
NoneV == [t |-> "none", v |-> 0, s |-> ""]
Missing == [t |-> "missing", v |-> 0, s |-> ""]
\* dict.get(key, default)
Get(val, default) == IF val.t = "missing" THEN default ELSE val

\* config.py: WORKFLOW_TYPE_KEYWORDS in iteration order, HIGH_PRIORITY_WORKFLOW_TYPES
KeywordCategories == <<"data_entry", "reporting", "processing", "communication", "analysis">>
HIGH_PRIORITY_WORKFLOW_TYPES == {"data_entry", "processing"}

\* WorkflowTypeDetector.detect_workflow_type.  hits[c] is the number of keyword
\* matches of category c in the combined text; the first category with the
\* highest positive score wins, no match gives "other".
RECURSIVE BestCategory(_, _, _)
BestCategory(hits, i, best) ==
    IF i > Len(KeywordCategories) THEN best
    ELSE LET c == KeywordCategories[i] IN
         IF hits[c] > 0 /\ (best = "other" \/ hits[c] > hits[best])
           THEN BestCategory(hits, i + 1, c)
           ELSE BestCategory(hits, i + 1, best)

detect_workflow_type(hits) == BestCategory(hits, 1, "other")

\* base_score *= 1.3 for the high-priority types (thousandths).
BoostedScore(workflow_type, repetitive_score) ==
    IF workflow_type \in HIGH_PRIORITY_WORKFLOW_TYPES
      THEN (repetitive_score * 13) \div 10
      ELSE repetitive_score

\* WorkflowTypeDetector.calculate_priority_score:
\* min(base_score + min(time_percentage / 100.0, 0.5), 1.0).  A repetitive
\* score that is no number raises TypeError.
calculate_priority_score(workflow_type, repetitive_score, time_percentage) ==
    IF repetitive_score.t # "num" THEN Raise("TypeError")
    ELSE Ok(Min(BoostedScore(workflow_type, repetitive_score.v)
                  + Min(time_percentage, 500), 1000))

\* list.sort(key=lambda x: x["priority_score"], reverse=True): stable,
\* descending.
RECURSIVE InsertByPriority(_, _)
InsertByPriority(sorted, x) ==
    IF sorted = << >> THEN <<x>>
    ELSE IF sorted[1].priority_score >= x.priority_score
      THEN <<sorted[1]>> \o InsertByPriority(Tail(sorted), x)
      ELSE <<x>> \o sorted

RECURSIVE SortByPriority(_)
SortByPriority(items) ==
    IF items = << >> THEN << >>
    ELSE InsertByPriority(SortByPriority(SubSeq(items, 1, Len(items) - 1)),
                          items[Len(items)])

\* One iteration of the loop of _parse_workflows on a dict item.
ParseWorkflowItem(workflow) ==
    LET workflow_type ==
            IF workflow.type = "unknown" THEN detect_workflow_type(workflow.hits)
            ELSE workflow.type
        repetitive_score == Get(workflow.repetitive_score, Num(500))
        priority == calculate_priority_score(workflow_type, repetitive_score, 0)
    IN  IF priority.raised THEN priority
        ELSE Ok([ type             |-> workflow_type,
                  description      |-> workflow.description,
                  duration_seconds |-> workflow.estimated_duration_seconds,
                  repetitive_score |-> repetitive_score.v,
                  priority_score   |-> priority.val ])

\* ResultParser._parse_workflows: items that are no dict are skipped; an
\* exception raised for one item leaves the loop (there is no try/except
\* inside it); the parsed workflows are sorted by priority.
RECURSIVE ParseWorkflowItems(_, _, _)
ParseWorkflowItems(raw, i, acc) ==
    IF i > Len(raw) THEN Ok(acc)
    ELSE IF ~raw[i].dict THEN ParseWorkflowItems(raw, i + 1, acc)
    ELSE LET item == ParseWorkflowItem(raw[i]) IN
         IF item.raised THEN item
         ELSE ParseWorkflowItems(raw, i + 1, Append(acc, item.val))

parse_workflows(workflows_raw) ==
    LET parsed == ParseWorkflowItems(workflows_raw, 1, << >>)
    IN  IF parsed.raised THEN parsed ELSE Ok(SortByPriority(parsed.val))

\* Integer square root, for math.sqrt.
RECURSIVE ISqrtBetween(_, _, _)
ISqrtBetween(n, lo, hi) ==
    IF lo >= hi THEN lo
    ELSE LET mid == (lo + hi + 1) \div 2
         IN  IF mid * mid <= n THEN ISqrtBetween(n, mid, hi)
             ELSE ISqrtBetween(n, lo, mid - 1)
ISqrt(n) == ISqrtBetween(n, 0, 10000)

PotentialScore(potential) ==
    IF potential = "high" THEN 3 ELSE IF potential = "low" THEN 1 ELSE 2
ComplexityScore(complexity) ==
    IF complexity = "low" THEN 3 ELSE IF complexity = "high" THEN 1 ELSE 2

\* ResultParser._calculate_priority, in hundredths:
\* min(100, potential * complexity * sqrt(max(1, daily_savings)) * 10).
\* potential.lower() of a value that is no string raises AttributeError.  From
\* 100 minutes on, or a product of 100 on under the root, the cap applies.
calculate_priority(potential, complexity, daily_savings) ==
    IF potential.t # "str" \/ complexity.t # "str" THEN Raise("AttributeError")
    ELSE LET pc2 == PotentialScore(potential.s) * ComplexityScore(complexity.s)
             m   == Max(1, daily_savings)
         IN  IF m >= 100 \/ pc2 * pc2 * m >= 100 THEN Ok(10000)
             ELSE Ok(Min(10000, ISqrt(pc2 * pc2 * m * 1000000)))

\* One iteration of the loop of _parse_opportunities on a dict item.
\* freq_daily * time_per_occurrence and the divisions by 60 raise TypeError
\* unless both are numbers.  Hours and cost are kept as 60 times their value.
ParseOpportunityItem(opp) ==
    LET freq_daily == Get(opp.frequency_daily, Num(1))
        time_per_occurrence == Get(opp.time_per_occurrence_minutes, Num(0))
    IN  IF freq_daily.t # "num" \/ time_per_occurrence.t # "num" THEN Raise("TypeError")
        ELSE LET daily_savings == freq_daily.v * time_per_occurrence.v
                 potential  == Get(opp.automation_potential, Str("medium"))
                 complexity == Get(opp.implementation_complexity, Str("medium"))
                 priority   == calculate_priority(potential, complexity, daily_savings)
             IN  IF priority.raised THEN priority
                 ELSE Ok([ workflow_type               |-> opp.workflow_type,
                           description                 |-> opp.description,
                           frequency_daily             |-> freq_daily.v,
                           time_per_occurrence_minutes |-> time_per_occurrence.v,
                           time_saved_daily_minutes    |-> daily_savings,
                           time_saved_weekly_hours     |-> daily_savings * 5,
                           time_saved_annually_hours   |-> daily_savings * 250,
                           cost_saved_annually         |-> daily_savings * 250 * 25,
                           automation_potential        |-> potential.s,
                           implementation_complexity   |-> complexity.s,
                           priority_score              |-> priority.val ])

\* ResultParser._parse_opportunities: as _parse_workflows, no try/except
\* inside the loop.
RECURSIVE ParseOpportunityItems(_, _, _)
ParseOpportunityItems(raw, i, acc) ==
    IF i > Len(raw) THEN Ok(acc)
    ELSE IF ~raw[i].dict THEN ParseOpportunityItems(raw, i + 1, acc)
    ELSE LET item == ParseOpportunityItem(raw[i]) IN
         IF item.raised THEN item
         ELSE ParseOpportunityItems(raw, i + 1, Append(acc, item.val))

parse_opportunities(opportunities_raw) ==
    LET parsed == ParseOpportunityItems(opportunities_raw, 1, << >>)
    IN  IF parsed.raised THEN parsed ELSE Ok(SortByPriority(parsed.val))

\* sorted(frames)
RECURSIVE InsertAsc(_, _)
InsertAsc(sorted, x) ==
    IF sorted = << >> THEN <<x>>
    ELSE IF sorted[1] <= x THEN <<sorted[1]>> \o InsertAsc(Tail(sorted), x)
    ELSE <<x>> \o sorted

RECURSIVE SortAsc(_)
SortAsc(frames) ==
    IF frames = << >> THEN << >>
    ELSE InsertAsc(SortAsc(Tail(frames)), frames[1])

\* The loop of _find_continuous_ranges over sorted_frames[1:], and the final
\* append.
RECURSIVE RangesFrom(_, _, _, _, _)
RangesFrom(sorted_frames, i, start, end, ranges) ==
    IF i > Len(sorted_frames)
      THEN Append(ranges, [start |-> start, end |-> end, duration |-> end - start + 1])
    ELSE LET frame == sorted_frames[i] IN
         IF frame = end + 1
           THEN RangesFrom(sorted_frames, i + 1, start, frame, ranges)
           ELSE RangesFrom(sorted_frames, i + 1, frame, frame,
                           Append(ranges, [start |-> start, end |-> end,
                                           duration |-> end - start + 1]))

\* ResultParser._find_continuous_ranges
find_continuous_ranges(frames) ==
    IF frames = << >> THEN << >>
    ELSE LET sorted_frames == SortAsc(frames)
         IN  RangesFrom(sorted_frames, 2, sorted_frames[1], sorted_frames[1], << >>)

\* duration_seconds = len(frame_list)  ("Frames are 1 second apart")
DurationOfFrames(frame_list) == Len(frame_list)

\* ResultParser._calculate_time_from_frames
calculate_time_from_frames(frame_list) ==
    IF frame_list = << >>
      THEN [seconds |-> 0, frame_count |-> 0, continuous_ranges |-> << >>]
      ELSE [seconds           |-> DurationOfFrames(frame_list),
            frame_count       |-> Len(frame_list),
            continuous_ranges |-> find_continuous_ranges(frame_list)]

\* ResultParser._calculate_step_times: every step gets its time from its
\* visible_in_frames (the steps of the model are dicts).
calculate_step_times(workflow_steps) ==
    [i \in 1..Len(workflow_steps) |->
        LET time_data == calculate_time_from_frames(workflow_steps[i].visible_in_frames)
        IN  [ action                |-> workflow_steps[i].action,
              visible_in_frames     |-> workflow_steps[i].visible_in_frames,
              time_estimate_seconds |-> time_data.seconds,
              frame_ranges          |-> time_data.continuous_ranges ]]

RECURSIVE MaxOfSeq(_)
MaxOfSeq(q) == IF q = << >> THEN 0 ELSE Max(q[1], MaxOfSeq(Tail(q)))

RECURSIVE MaxFrameOf(_)
MaxFrameOf(entities) ==
    IF entities = << >> THEN 0
    ELSE Max(MaxOfSeq(entities[1].visible_in_frames), MaxFrameOf(Tail(entities)))

\* ResultParser._estimate_total_frames: the highest frame number any step or
\* application names (max_frame starts at 0).
estimate_total_frames(analysis) ==
    Max(MaxFrameOf(analysis.workflow_steps), MaxFrameOf(analysis.applications))

\* round(100 * seconds / total_frames, 1), in tenths of a percent.
RoundDiv(a, b) == (2 * a + b) \div (2 * b)

\* ResultParser._calculate_application_times
calculate_application_times(applications, total_frames0) ==
    LET total_frames == IF total_frames0 = 0 THEN MaxFrameOf(applications)
                        ELSE total_frames0
    IN  [i \in 1..Len(applications) |->
            LET time_data == calculate_time_from_frames(applications[i].visible_in_frames)
            IN  [ name              |-> applications[i].name,
                  hits              |-> applications[i].hits,
                  visible_in_frames |-> applications[i].visible_in_frames,
                  timeSeconds       |-> time_data.seconds,
                  frameCount        |-> time_data.frame_count,
                  timePercentage    |->
                      IF total_frames > 0
                        THEN RoundDiv(1000 * time_data.seconds, total_frames)
                        ELSE 0 ]]

\* ResultParser._parse_natural_workflows: one workflow per application, plus
\* the combined workflow when there are steps.  timePercentage / 100 is the
\* repetitive score.
RECURSIVE SumStepTimes(_)
SumStepTimes(steps) ==
    IF steps = << >> THEN 0
    ELSE steps[1].time_estimate_seconds + SumStepTimes(Tail(steps))

parse_natural_workflows(applications, workflow_steps) ==
    LET per_app ==
          [i \in 1..Len(applications) |->
              LET app == applications[i]
                  workflow_type == detect_workflow_type(app.hits)
                  priority == calculate_priority_score(workflow_type,
                                  Num(app.timePercentage), app.timePercentage)
              IN  [ type             |-> workflow_type,
                    description      |-> app.name,
                    duration_seconds |-> app.timeSeconds,
                    repetitive_score |-> app.timePercentage,
                    priority_score   |-> priority.val ]]
    IN  IF workflow_steps = << >> THEN per_app
        ELSE Append(per_app, [ type             |-> "observed_workflow",
                               description      |-> "natural_description",
                               duration_seconds |-> SumStepTimes(workflow_steps),
                               repetitive_score |-> 500,
                               priority_score   |-> 500 ])

\* A time string is its first number (-1 when it holds none) and its words.
TimeStr(n, words) == [t |-> "str", v |-> n, s |-> words]
HourWords == {"hours", "hours daily", "hour"}

\* ResultParser._extract_minutes; re.search on a value that is no string
\* raises TypeError.
extract_minutes(time_str) ==
    IF time_str.t # "str" THEN Raise("TypeError")
    ELSE IF time_str.v < 0 THEN Ok(0)
    ELSE IF time_str.s \in HourWords THEN Ok(time_str.v * 60)
    ELSE Ok(time_str.v)

\* (mutant: every complexity counts as medium potential)
complexity_to_potential_medium(complexity) ==
    IF complexity.t # "str" THEN Raise("AttributeError")
    ELSE Ok("medium")
\* ResultParser._complexity_to_potential; complexity.lower() of a value that
\* is no string raises AttributeError.
complexity_to_potential(complexity) ==
    IF complexity.t # "str" THEN Raise("AttributeError")
    ELSE Ok(IF complexity.s = "simple" THEN "high"
            ELSE IF complexity.s = "complex" THEN "low"
            ELSE "medium")

\* One iteration of the loop of _parse_natural_opportunities on a dict item.
ParseNaturalOpportunityItem(opp) ==
    LET daily_minutes == extract_minutes(Get(opp.timeSaved, TimeStr(0, "minutes")))
        complexity    == Get(opp.complexity, Str("moderate"))
        potential     == complexity_to_potential(complexity)
    IN  IF daily_minutes.raised THEN daily_minutes
        ELSE IF potential.raised THEN potential
        ELSE Ok([ workflow_type               |-> "natural_opportunity",
                  description                 |-> opp.what,
                  frequency_daily             |-> 1,
                  time_per_occurrence_minutes |-> daily_minutes.val,
                  time_saved_daily_minutes    |-> daily_minutes.val,
                  time_saved_weekly_hours     |-> daily_minutes.val * 5,
                  time_saved_annually_hours   |-> daily_minutes.val * 250,
                  cost_saved_annually         |-> daily_minutes.val * 250 * 25,
                  automation_potential        |-> potential.val,
                  implementation_complexity   |-> complexity.s,
                  priority_score              |-> 5000 ])

\* opportunities.sort(key=lambda x: x["time_saved_daily_minutes"], reverse=True)
RECURSIVE InsertByTimeSaved(_, _)
InsertByTimeSaved(sorted, x) ==
    IF sorted = << >> THEN <<x>>
    ELSE IF sorted[1].time_saved_daily_minutes >= x.time_saved_daily_minutes
      THEN <<sorted[1]>> \o InsertByTimeSaved(Tail(sorted), x)
      ELSE <<x>> \o sorted

RECURSIVE SortByTimeSaved(_)
SortByTimeSaved(items) ==
    IF items = << >> THEN << >>
    ELSE InsertByTimeSaved(SortByTimeSaved(SubSeq(items, 1, Len(items) - 1)),
                           items[Len(items)])

\* ResultParser._parse_natural_opportunities: no try/except inside the loop.
RECURSIVE ParseNaturalOpportunityItems(_, _, _)
ParseNaturalOpportunityItems(raw, i, acc) ==
    IF i > Len(raw) THEN Ok(acc)
    ELSE IF ~raw[i].dict THEN ParseNaturalOpportunityItems(raw, i + 1, acc)
    ELSE LET item == ParseNaturalOpportunityItem(raw[i]) IN
         IF item.raised THEN item
         ELSE ParseNaturalOpportunityItems(raw, i + 1, Append(acc, item.val))

parse_natural_opportunities(opportunities_raw) ==
    LET parsed == ParseNaturalOpportunityItems(opportunities_raw, 1, << >>)
    IN  IF parsed.raised THEN parsed ELSE Ok(SortByTimeSaved(parsed.val))

\* round(x, n) rounds half to even: a over b, to the nearest integer.
RoundHalfEven(a, b) ==
    LET q == a \div b
        r == a - q * b
    IN  IF 2 * r < b THEN q
        ELSE IF 2 * r > b THEN q + 1
        ELSE IF q % 2 = 0 THEN q ELSE q + 1

\* sum(item[field] for item in items)
RECURSIVE SumField(_, _)
SumField(metrics, field) ==
    IF metrics = << >> THEN 0
    ELSE metrics[1][field] + SumField(Tail(metrics), field)

\* sum(1 for w in workflows if w["priority_score"] > 0.7)
HighPriorityWorkflows(workflows) ==
    Cardinality({i \in 1..Len(workflows) : workflows[i].priority_score > 700})

\* workflow_type_counts: the number of workflows of each type that occurs.
WorkflowTypeBreakdown(workflows) ==
    [t \in {workflows[i].type : i \in 1..Len(workflows)} |->
        Cardinality({i \in 1..Len(workflows) : workflows[i].type = t})]

\* ResultParser._calculate_summary.  Minutes as they are, hours in tenths,
\* dollars in cents, the multiplier in tenths; the sums are exact here, the
\* opportunities keep 60 times their hours and dollars.
calculate_summary(workflows, opportunities) ==
    LET total_daily_minutes  == SumField(opportunities, "time_saved_daily_minutes")
        total_weekly_hours   == SumField(opportunities, "time_saved_weekly_hours")
        total_annual_savings == SumField(opportunities, "cost_saved_annually")
    IN  [ total_workflows_detected    |-> Len(workflows),
          high_priority_workflows     |-> HighPriorityWorkflows(workflows),
          workflow_type_breakdown     |-> WorkflowTypeBreakdown(workflows),
          total_opportunities         |-> Len(opportunities),
          high_priority_opportunities |->
              Cardinality({i \in 1..Len(opportunities) :
                              opportunities[i].automation_potential = "high"}),
          time_savings_daily_minutes  |-> total_daily_minutes,
          time_savings_weekly_hours   |-> RoundHalfEven(total_weekly_hours, 6),
          cost_savings_annual_usd     |-> RoundHalfEven(total_annual_savings * 5, 3),
          highest_impact_opportunity  |->
              IF opportunities = << >> THEN NoneV ELSE Str(opportunities[1].description),
          roi_multiplier              |->
              IF total_annual_savings > 0
                THEN RoundHalfEven(total_annual_savings, 30000) ELSE 0 ]

\* ResultParser._calculate_natural_summary.  The weekly hours come from the
\* daily minutes; potential_hours_saved_daily is metrics.get(
\* "potentialTimeSavedDailyHours", 0) of a reply that holds no metrics.
calculate_natural_summary(workflows, opportunities, analysis) ==
    LET total_daily_minutes  == SumField(opportunities, "time_saved_daily_minutes")
        total_annual_savings == SumField(opportunities, "cost_saved_annually")
    IN  [ total_workflows_detected    |-> Len(workflows),
          high_priority_workflows     |-> HighPriorityWorkflows(workflows),
          workflow_type_breakdown     |-> WorkflowTypeBreakdown(workflows),
          total_opportunities         |-> Len(opportunities),
          high_priority_opportunities |->
              Cardinality({i \in 1..Len(opportunities) :
                              opportunities[i].automation_potential = "high"}),
          time_savings_daily_minutes  |-> total_daily_minutes,
          time_savings_weekly_hours   |-> RoundHalfEven(total_daily_minutes * 5, 6),
          cost_savings_annual_usd     |-> RoundHalfEven(total_annual_savings * 5, 3),
          highest_impact_opportunity  |->
              IF opportunities = << >> THEN NoneV ELSE Str(opportunities[1].description),
          roi_multiplier              |->
              IF total_annual_savings > 0
                THEN RoundHalfEven(total_annual_savings, 30000) ELSE 0,
          potential_hours_saved_daily |-> 0 ]

\* ResultParser._create_error_result
ParserErrorResult(error_message) ==
    [ success |-> FALSE, error |-> error_message, format |-> "",
      workflows |-> << >>, automation_opportunities |-> << >>,
      workflow_steps |-> << >>,
      summary |-> [ total_workflows_detected |-> 0, total_opportunities |-> 0,
                    time_savings_daily_minutes |-> 0, cost_savings_annual_usd |-> 0 ] ]

\* ResultParser._parse_natural_format
parse_natural_format(analysis) ==
    LET total_frames   == estimate_total_frames(analysis)
        workflow_steps == calculate_step_times(analysis.workflow_steps)
        applications   == calculate_application_times(analysis.applications, total_frames)
        workflows      == parse_natural_workflows(applications, workflow_steps)
        opportunities  == parse_natural_opportunities(analysis.automation_opportunities)
    IN  IF opportunities.raised THEN opportunities
        ELSE Ok([ success |-> TRUE, error |-> << >>, format |-> "natural",
                  workflows |-> workflows,
                  automation_opportunities |-> opportunities.val,
                  workflow_steps |-> workflow_steps,
                  summary |-> calculate_natural_summary(workflows, opportunities.val,
                                                        analysis) ])

\* The legacy branch of parse_analysis_result (lines 51-77).
parse_legacy_format(analysis) ==
    LET workflows == parse_workflows(analysis.workflows_detected) IN
    IF workflows.raised THEN workflows
    ELSE LET opportunities == parse_opportunities(analysis.automation_opportunities) IN
         IF opportunities.raised THEN opportunities
         ELSE Ok([ success |-> TRUE, error |-> << >>, format |-> "",
                   workflows |-> workflows.val,
                   automation_opportunities |-> opportunities.val,
                   workflow_steps |-> << >>,
                   summary |-> calculate_summary(workflows.val, opportunities.val) ])

\* What the try block of parse_analysis_result does with an exception.
ParseGuard(out) ==
    IF out.raised THEN ParserErrorResult(<<"Parsing failed", out.exc>>) ELSE out.val

\* gpt_response.get("error", "Analysis failed"): a response without the key
\* "error" holds the empty message here.
ResponseError(gpt_response) ==
    IF gpt_response.error = << >> THEN <<"Analysis failed">> ELSE gpt_response.error

\* (mutant: the format is told by the applications of the payload)
IsNaturalFormatByApplications(analysis) == analysis.applications # << >>
\* if "natural_description" in analysis
IsNaturalFormat(analysis) == analysis.natural_description

\* (mutant: the success flag is not looked at)
parse_analysis_result_unflagged(gpt_response) ==
    IF IsNaturalFormat(gpt_response.analysis)
      THEN ParseGuard(parse_natural_format(gpt_response.analysis))
      ELSE ParseGuard(parse_legacy_format(gpt_response.analysis))
\* ResultParser.parse_analysis_result
parse_analysis_result(gpt_response) ==
    IF ~gpt_response.success THEN ParserErrorResult(ResponseError(gpt_response))
    ELSE IF IsNaturalFormat(gpt_response.analysis)
      THEN ParseGuard(parse_natural_format(gpt_response.analysis))
      ELSE ParseGuard(parse_legacy_format(gpt_response.analysis))

\* ------------------------------------------------------------ GPT-4V client
\* The payload ("analysis") of a reply: the keys the parser reads.
Payload(nat, wfs, opps, apps, steps) ==
    [ natural_description      |-> nat,
      raw_response             |-> FALSE,
      workflows_detected       |-> wfs,
      automation_opportunities |-> opps,
      applications             |-> apps,
      workflow_steps           |-> steps ]
EmptyPayload == Payload(FALSE, << >>, << >>, << >>, << >>)
\* parsed = {"raw_response": content}
RawPayload == [EmptyPayload EXCEPT !.raw_response = TRUE]

NoResponse == [present |-> FALSE, wellformed |-> FALSE, json |-> FALSE,
               analysis |-> EmptyPayload]
Response(wellformed, json, analysis) ==
    [present |-> TRUE, wellformed |-> wellformed, json |-> json, analysis |-> analysis]

GptFailure(error) == [success |-> FALSE, error |-> error, analysis |-> EmptyPayload]
GptSuccess(analysis) == [success |-> TRUE, error |-> << >>, analysis |-> analysis]
NoGptResult == GptFailure(<<"not run">>)

\* The exceptions the endpoint raises, by the classification of their message.
ApiErrors == {"rate_limit", "invalid_request_error", "context_length", "timeout"}

\* (mutant: the delay does not grow)
BackoffDelayConstant(k) == retry_delay
\* delay = self.retry_delay * (2 ** attempt)
BackoffDelay(k) == retry_delay * (2 ^ k)

\* if attempt < self.max_retries - 1: await asyncio.sleep(delay)
SleepsAfterFailure(k) == k < max_retries - 1

\* (mutant: one attempt too many)
RetryLoopRunsOnceMore(k, resp) == k <= max_retries /\ ~resp.present
\* for attempt in range(self.max_retries), and the return inside the loop.
RetryLoopRuns(k, resp) == k < max_retries /\ ~resp.present

\* (mutant: a reply that is not JSON is a failure)
parse_response_strict(resp) ==
    IF ~resp.wellformed THEN GptFailure(<<"Response parsing failed">>)
    ELSE IF resp.json THEN GptSuccess(resp.analysis)
    ELSE GptFailure(<<"Response parsing failed">>)
\* GPT4VClient._parse_response
parse_response(resp) ==
    IF ~resp.wellformed THEN GptFailure(<<"Response parsing failed">>)
    ELSE IF resp.json THEN GptSuccess(resp.analysis)
    ELSE GptSuccess(RawPayload)

\* GPT4VClient.analyze_frames after _call_with_retry has returned.
AnalyzeFramesResult(resp) ==
    IF ~resp.present THEN GptFailure(<<"Failed to get response from GPT-4V">>)
    ELSE parse_response(resp)

\* ------------------------------------------------------------- orchestrator
StageOrder == <<"frame_extraction", "gpt4v_analysis", "result_parsing">>

NoEnvelope ==
    [ returned |-> FALSE, escaped |-> FALSE, success |-> FALSE, error |-> << >>,
      steps_completed |-> << >>, workflows |-> << >>, automation_opportunities |-> << >> ]

\* (mutant: one fixed message for every failure)
create_error_result_generic(error_message, status) ==
    [ returned |-> TRUE, escaped |-> FALSE, success |-> FALSE, error |-> <<"Analysis failed">>,
      steps_completed |-> status.steps_completed,
      workflows |-> << >>, automation_opportunities |-> << >> ]
\* AnalysisOrchestrator._create_error_result
create_error_result(error_message, status) ==
    [ returned |-> TRUE, escaped |-> FALSE, success |-> FALSE, error |-> error_message,
      steps_completed |-> status.steps_completed,
      workflows |-> << >>, automation_opportunities |-> << >> ]

\* final_result of analyze_recording (lines 159-195)
FinalResult(parsed, status) ==
    [ returned |-> TRUE, escaped |-> FALSE, success |-> TRUE, error |-> << >>,
      steps_completed |-> status.steps_completed,
      workflows |-> parsed.workflows,
      automation_opportunities |-> parsed.automation_opportunities ]

\* (mutant: the step is not recorded)
StepNotRecorded(status, step) == status
\* pipeline_status["steps_completed"].append({"step": ...})
StepCompleted(status, step) ==
    [status EXCEPT !.steps_completed = Append(@, step)]

\* (mutant: the handler lets the exception through)
HandlePipelineExceptionReraise(exc, status) == [NoEnvelope EXCEPT !.escaped = TRUE]
\* except Exception as e: return self._create_error_result(...)
HandlePipelineException(exc, status) ==
    create_error_result(<<"Analysis pipeline error", exc>>, status)

\* ------------------------------------------------- inputs of the normaliser
NoHits == [c \in {"data_entry", "reporting", "processing", "communication", "analysis"} |-> 0]
HitSets == {NoHits, [NoHits EXCEPT !["reporting"] = 1, !["processing"] = 1],
            [NoHits EXCEPT !["communication"] = 1, !["data_entry"] = 2]}

\* An item that is no dict (a string in the list).
NotADict(item) == [item EXCEPT !.dict = FALSE]

\* A dict of workflows_detected.
WorkflowDict(type, hits, rep) ==
    [ dict |-> TRUE, type |-> type, description |-> "", hits |-> hits,
      repetitive_score |-> rep, estimated_duration_seconds |-> 0 ]

\* A dict of automation_opportunities, with the keys of both formats.
OpportunityDict(freq, tpo, potential, complexity, time_saved, nat_complexity) ==
    [ dict |-> TRUE, description |-> "", what |-> "", workflow_type |-> "unknown",
      frequency_daily |-> freq, time_per_occurrence_minutes |-> tpo,
      automation_potential |-> potential, implementation_complexity |-> complexity,
      timeSaved |-> time_saved, complexity |-> nat_complexity ]

RepetitiveScores == {Missing, NoneV, Num(-1000), Num(0), Num(500), Num(900), Num(5000)}

WorkflowItems ==
    LET dicts == {WorkflowDict(ty, h, r) :
                     ty \in {"unknown", "data_entry", "reporting"},
                     h \in {NoHits, [NoHits EXCEPT !["reporting"] = 1, !["processing"] = 1]},
                     r \in RepetitiveScores}
    IN  dicts \cup {NotADict(WorkflowDict("unknown", NoHits, Missing))}

LegacyOpportunity(freq, tpo, potential, complexity) ==
    OpportunityDict(freq, tpo, potential, complexity, Missing, Missing)

GoodLegacyOpportunities ==
    {LegacyOpportunity(f, m, p, c) :
        f \in {Missing, Num(-2), Num(3)}, m \in {Num(10), Num(1000)},
        p \in {Missing, Str("high")}, c \in {Missing, Str("low")}}

\* Items whose field extraction raises: a potential or complexity that is no
\* string, a frequency or a time that is no number.
BadLegacyOpportunities ==
    { LegacyOpportunity(Num(3), Num(10), Num(5), Str("low")),
      LegacyOpportunity(Num(3), Num(10), Str("high"), NoneV),
      LegacyOpportunity(Str("often"), Num(10), Str("high"), Str("low")),
      LegacyOpportunity(Num(3), NoneV, Str("high"), Str("low")) }

LegacyOpportunityItems ==
    GoodLegacyOpportunities \cup BadLegacyOpportunities
        \cup {NotADict(LegacyOpportunity(Missing, Missing, Missing, Missing))}

NaturalOpportunity(time_saved, nat_complexity) ==
    OpportunityDict(Missing, Missing, Missing, Missing, time_saved, nat_complexity)

NaturalOpportunityItems ==
    {NaturalOpportunity(ts, c) :
        ts \in {Missing, TimeStr(30, "minutes daily"), TimeStr(2, "hours"),
                TimeStr(-1, "soon"), Num(30)},
        c \in {Missing, Str("simple"), Str("complex"), NoneV}}
      \cup {NotADict(NaturalOpportunity(Missing, Missing))}

\* The lists of at most n items of S; the i-th item of a list is given the
\* i-th name as its description, so that the items of a reply can be told apart.
ItemNames == <<"a", "b", "c", "d">>
Named(list) ==
    [i \in 1..Len(list) |-> [list[i] EXCEPT !.description = ItemNames[i],
                                            !.what = ItemNames[i]]]
ListsOf(S, n) == UNION {[1..k -> S] : k \in 0..n}
NamedWorkflows(list) ==
    [i \in 1..Len(list) |-> [list[i] EXCEPT !.description = ItemNames[i]]]

FrameLists == ListsOf(1..MaxFrameNo, MaxFrameListLen)
Application(name, hits, frames) ==
    [name |-> name, hits |-> hits, visible_in_frames |-> frames]
Step(action, frames) == [action |-> action, visible_in_frames |-> frames]

ApplicationLists ==
    {<< >>} \cup {<<Application("Gmail", NoHits, f)>> : f \in FrameLists}
            \cup {<<Application("Gmail", h, <<1, 2>>), Application("Excel", NoHits, <<3>>)>> :
                      h \in HitSets}
StepLists == {<< >>} \cup {<<Step("open", f)>> : f \in FrameLists}

FewWorkflowLists ==
    {<< >>, NamedWorkflows(<<WorkflowDict("data_entry", NoHits, Num(900))>>)}
FewLegacyOpportunityLists ==
    {<< >>, Named(<<LegacyOpportunity(Num(3), Num(10), Str("high"), Str("low"))>>)}
FewNaturalOpportunityLists ==
    {<< >>, Named(<<NaturalOpportunity(TimeStr(30, "minutes daily"), Str("simple"))>>)}

LegacyPayloads ==
    {Payload(FALSE, NamedWorkflows(w), o, << >>, << >>) :
        w \in ListsOf(WorkflowItems, MaxItems), o \in FewLegacyOpportunityLists}
    \cup
    {Payload(FALSE, w, Named(o), << >>, << >>) :
        w \in FewWorkflowLists, o \in ListsOf(LegacyOpportunityItems, MaxItems)}

NaturalPayloads ==
    {Payload(TRUE, << >>, o, a, st) :
        a \in ApplicationLists, st \in StepLists, o \in FewNaturalOpportunityLists}
    \cup
    {Payload(TRUE, << >>, Named(o), <<Application("Gmail", NoHits, <<1, 2>>)>>, << >>) :
        o \in ListsOf(NaturalOpportunityItems, MaxItems)}

\* A response with success=false: with or without an error message, and
\* whatever analysis comes with it.
FailedResponse(error, analysis) ==
    [success |-> FALSE, error |-> error, analysis |-> analysis]

\* Payloads without natural_description that carry the keys of the natural
\* format next to those of the legacy format.
MixedPayloads ==
    {Payload(FALSE, w, o, <<Application("Gmail", NoHits, <<1, 2>>)>>, st) :
        w \in FewWorkflowLists, o \in FewLegacyOpportunityLists,
        st \in {<< >>, <<Step("open", <<1>>)>>}}

NormalizerInputs ==
    {GptFailure(<<"Failed to get response from GPT-4V">>), GptSuccess(RawPayload)}
    \cup {GptSuccess(p) : p \in LegacyPayloads \cup NaturalPayloads \cup MixedPayloads}
    \cup {FailedResponse(e, p) :
            e \in {<<"Test error">>, << >>},
            p \in {RawPayload}
                  \cup {Payload(FALSE, w, o, << >>, << >>) :
                          w \in FewWorkflowLists, o \in FewLegacyOpportunityLists}
                  \cup {Payload(TRUE, << >>, o, a, << >>) :
                          o \in FewNaturalOpportunityLists, a \in ApplicationLists}}

NoParsedResult == ParserErrorResult(<<"not run">>)

\* ---------------------------------------------------- inputs of the pipeline
\* The orchestrator passes no extraction_settings.
PipelineVideos ==
    [ raw_fps      : {0, 2},
      total_frames : {0, MaxTotalFrames},
      unreadable   : {{}, 0..MaxTotalFrames},
      unpreparable : {{}, {0}},
      change_ratio : {25},
      downloads    : BOOLEAN ]
PipelineRequests ==
    [ duration_seconds : {1, MaxDuration}, extraction_settings : {NoSettings}, mode : Modes ]

PipelinePayloads ==
    { EmptyPayload,
      Payload(FALSE, NamedWorkflows(<<WorkflowDict("data_entry", NoHits, Num(900))>>),
              Named(<<LegacyOpportunity(Num(3), Num(10), Str("high"), Str("low"))>>),
              << >>, << >>),
      Payload(FALSE, << >>,
              Named(<<LegacyOpportunity(Num(3), Num(10), Num(5), Str("low"))>>),
              << >>, << >>),
      Payload(TRUE, << >>,
              Named(<<NaturalOpportunity(TimeStr(30, "minutes daily"), Str("simple"))>>),
              <<Application("Gmail", NoHits, <<1, 2>>)>>, <<Step("open", <<1, 1, 2>>)>>) }

\* What the endpoint can return: a reply whose choices or usage are missing,
\* a reply that is no JSON, a JSON reply.
ApiResponses ==
    {Response(FALSE, FALSE, EmptyPayload), Response(TRUE, FALSE, EmptyPayload)}
    \cup {Response(TRUE, TRUE, p) : p \in PipelinePayloads}

\* ------------------------------------------------------------- ROI calculator
\* Money is in cents, hours in hundredths, minutes saved, percentages and
\* months in tenths; minutes of the input are whole.
\* round(x, n) of a value whose exact decimal expansion may end in a 5 that the
\* binary float does not hold: the float lies a little under or a little over
\* the tie, and round goes down or up with it. `up` is the side the float
\* falls on; away from a tie it plays no part.
RoundFloat(a, b, up) ==
    LET q == a \div b
        r == a - q * b
    IN  IF 2 * r = b THEN (IF up THEN q + 1 ELSE q) ELSE RoundHalfEven(a, b)

\* The sides on which the floats of one call of calculate_roi can fall.
FloatTies == [daily_hours : BOOLEAN, daily_usd : BOOLEAN, roi_percentage : BOOLEAN]

\* ROICalculator.IMPLEMENTATION_COSTS.get(complexity.lower(), 15000)
IMPLEMENTATION_COSTS(complexity) ==
    IF complexity = "simple" THEN 5000
    ELSE IF complexity = "moderate" THEN 15000
    ELSE IF complexity = "complex" THEN 50000
    ELSE 15000

\* ROICalculator.AUTOMATION_EFFICIENCY.get(potential, 0.75), in percent
AUTOMATION_EFFICIENCY(potential) ==
    IF potential = "high" THEN 95
    ELSE IF potential = "medium" THEN 75
    ELSE IF potential = "low" THEN 50
    ELSE 75

\* hourly_rate = hourly_rate or self.DEFAULT_HOURLY_RATE
EffectiveHourlyRate(hourly_rate) ==
    IF hourly_rate.t = "none" \/ hourly_rate.v = 0 THEN DEFAULT_HOURLY_RATE
    ELSE hourly_rate.v

\* The minutes an opportunity saves a day, before the efficiency factor
\* (lines 163-168).
OpportunityDailyMinutes(opportunity) ==
    IF opportunity.time_saved_daily_minutes = 0
      THEN opportunity.frequency_daily * opportunity.time_per_occurrence_minutes
      ELSE opportunity.time_saved_daily_minutes

\* (mutant: the guard lets negative savings through)
OpportunityPaybackUnguarded(savings24, implementation_cost) ==
    IF savings24 # 0 /\ implementation_cost > 0
      THEN RoundHalfEven(2880 * implementation_cost, savings24)
      ELSE 0
\* Lines 185-190: payback = implementation_cost / (annual_savings / 12), in
\* tenths of a month; savings24 is 24 times the annual savings in dollars.
OpportunityPayback(savings24, implementation_cost) ==
    IF savings24 > 0 /\ implementation_cost > 0
      THEN RoundHalfEven(2880 * implementation_cost, savings24)
      ELSE 0

\* Lines 185-189: roi = (annual_savings - cost) / cost * 100, in tenths.
OpportunityRoi(savings24, implementation_cost) ==
    IF savings24 > 0 /\ implementation_cost > 0
      THEN RoundHalfEven((savings24 - 24 * implementation_cost) * 125,
                         3 * implementation_cost)
      ELSE 0

\* ROICalculator._calculate_opportunity_metrics
calculate_opportunity_metrics(opportunity, hourly_rate) ==
    LET daily_minutes == OpportunityDailyMinutes(opportunity)
        complexity == opportunity.implementation_complexity
        potential  == opportunity.automation_potential
        efficiency == AUTOMATION_EFFICIENCY(potential)
        \* actual_daily_minutes, in hundredths of a minute
        actual100 == daily_minutes * efficiency
        implementation_cost == IMPLEMENTATION_COSTS(complexity)
        \* annual_savings = actual / 60 * 250 * hourly_rate, times 24
        savings24 == actual100 * hourly_rate
    IN  [ description               |-> opportunity.description,
          daily_minutes_saved       |-> RoundHalfEven(actual100, 10),
          annual_hours_saved        |-> RoundHalfEven(actual100 * 10, 24),
          annual_cost_savings       |-> RoundHalfEven(savings24 * 25, 6),
          implementation_cost       |-> implementation_cost,
          implementation_complexity |-> complexity,
          automation_potential      |-> potential,
          roi_percentage            |-> OpportunityRoi(savings24, implementation_cost),
          payback_months            |-> OpportunityPayback(savings24, implementation_cost),
          efficiency_factor         |-> efficiency ]

\* (mutant: the factor 2 on the side of the savings)
determine_priority_doubled_savings(savings12, implementation_cost, monthly30) ==
    LET has_payback == monthly30 > 0 /\ implementation_cost > 0
        PaybackAtMost(months) ==
            IF has_payback THEN 30 * implementation_cost <= months * monthly30
            ELSE TRUE
    IN  IF PaybackAtMost(3) THEN "immediate"
        ELSE IF PaybackAtMost(6) /\ savings12 > 12 * 50000 THEN "high"
        ELSE IF PaybackAtMost(12) THEN "medium"
        ELSE IF savings12 * 2 > 12 * implementation_cost THEN "strategic"
        ELSE "low"
\* ROICalculator._determine_priority.  savings12 is 12 times the annual
\* savings, monthly30 is 30 times the monthly savings; the payback is
\* implementation_cost / monthly_savings when both are positive, else 0.
determine_priority(savings12, implementation_cost, monthly30) ==
    LET has_payback == monthly30 > 0 /\ implementation_cost > 0
        PaybackAtMost(months) ==
            IF has_payback THEN 30 * implementation_cost <= months * monthly30
            ELSE TRUE
    IN  IF PaybackAtMost(3) THEN "immediate"
        ELSE IF PaybackAtMost(6) /\ savings12 > 12 * 50000 THEN "high"
        ELSE IF PaybackAtMost(12) THEN "medium"
        ELSE IF savings12 > 12 * implementation_cost * 2 THEN "strategic"
        ELSE "low"

\* ROICalculator._generate_executive_summary
generate_executive_summary(annual_savings, implementation_cost, opportunity_count) ==
    IF annual_savings = 0
      THEN [ text |-> "No significant automation opportunities identified in this recording.",
             opportunity_count |-> 0, with_payback |-> FALSE ]
      ELSE [ text |-> "Analysis identified automation opportunities",
             opportunity_count |-> opportunity_count,
             with_payback |-> implementation_cost > 0 ]

\* ROICalculator._generate_recommendations: which of the four
\* recommendations are made, in order.
generate_recommendations(opportunities, budget) ==
    LET n == Len(opportunities)
        quick_wins == \E i \in 1..n : opportunities[i].payback_months <= 30
        high_roi   == \E i \in 1..n : opportunities[i].roi_percentage > 2000
        in_budget  == /\ budget.t = "num" /\ budget.v # 0
                      /\ \E i \in 1..n : opportunities[i].implementation_cost <= budget.v
        phased     == SumField(opportunities, "annual_cost_savings") > 100000 * 100
    IN  (IF quick_wins THEN <<"quick_wins">> ELSE << >>)
        \o (IF high_roi THEN <<"high_roi">> ELSE << >>)
        \o (IF in_budget THEN <<"within_budget">> ELSE << >>)
        \o (IF phased THEN <<"phased_program">> ELSE << >>)

\* ROICalculator._empty_roi_result
empty_roi_result ==
    [ success |-> TRUE,
      time_savings |-> [ daily_hours |-> 0, weekly_hours |-> 0, monthly_hours |-> 0,
                         annual_hours |-> 0, percentage_of_workday |-> 0 ],
      cost_savings |-> [ daily_usd |-> 0, weekly_usd |-> 0, monthly_usd |-> 0,
                         annual_usd |-> 0, hourly_rate_used |-> DEFAULT_HOURLY_RATE ],
      implementation |-> [ total_cost_usd |-> 0, payback_period_months |-> 0,
                           roi_percentage |-> 0, priority |-> "none",
                           within_budget |-> TRUE ],
      opportunities |-> << >>,
      executive_summary |-> [ text |-> "No automation opportunities identified in this recording.",
                              opportunity_count |-> 0, with_payback |-> FALSE ],
      recommendations |-> << >> ]

\* opportunities = analysis_results.get("automation_opportunities", [])
AnalysisOpportunities(analysis_results) ==
    IF "automation_opportunities" \in DOMAIN analysis_results
      THEN analysis_results.automation_opportunities
      ELSE << >>

\* (mutant: an empty list is priced like any other)
HasNoOpportunitiesNever(opportunities) == FALSE
\* if not opportunities
HasNoOpportunities(opportunities) == opportunities = << >>

\* ROICalculator.calculate_roi
calculate_roi(analysis_results, hourly_rate0, implementation_budget, ties) ==
    LET hourly_rate   == EffectiveHourlyRate(hourly_rate0)
        opportunities == AnalysisOpportunities(analysis_results)
    IN  IF HasNoOpportunities(opportunities) THEN empty_roi_result
        ELSE
        LET opportunity_metrics ==
                [i \in 1..Len(opportunities) |->
                    calculate_opportunity_metrics(opportunities[i], hourly_rate)]
            \* total_daily_minutes_saved, in tenths of a minute
            total10 == SumField(opportunity_metrics, "daily_minutes_saved")
            total_implementation_cost == SumField(opportunity_metrics, "implementation_cost")
            \* monthly_savings = total / 60 * 20 * rate: 30 times it
            monthly30 == total10 * hourly_rate
            \* annual_savings = total / 60 * 250 * rate: 12 times it
            savings12 == 5 * total10 * hourly_rate
            has_payback == monthly30 > 0 /\ total_implementation_cost > 0
        IN  [ success |-> TRUE,
              time_savings |->
                [ daily_hours   |-> RoundFloat(total10, 6, ties.daily_hours),
                  weekly_hours  |-> RoundHalfEven(5 * total10, 6),
                  monthly_hours |-> RoundHalfEven(20 * total10, 6),
                  annual_hours  |-> RoundHalfEven(250 * total10, 6),
                  percentage_of_workday |-> RoundHalfEven(5 * total10, 24) ],
              cost_savings |->
                [ daily_usd   |-> RoundFloat(total10 * hourly_rate, 6, ties.daily_usd),
                  weekly_usd  |-> RoundHalfEven(5 * total10 * hourly_rate, 6),
                  monthly_usd |-> RoundHalfEven(20 * total10 * hourly_rate, 6),
                  annual_usd  |-> RoundHalfEven(250 * total10 * hourly_rate, 6),
                  hourly_rate_used |-> hourly_rate ],
              implementation |->
                [ total_cost_usd |-> total_implementation_cost,
                  payback_period_months |->
                      IF has_payback
                        THEN RoundHalfEven(300 * total_implementation_cost, monthly30)
                        ELSE 0,
                  roi_percentage |->
                      IF has_payback
                        THEN RoundFloat((savings12 - 12 * total_implementation_cost) * 250,
                                        3 * total_implementation_cost, ties.roi_percentage)
                        ELSE 0,
                  priority |-> determine_priority(savings12, total_implementation_cost,
                                                  monthly30),
                  within_budget |-> \/ implementation_budget.t = "none"
                                    \/ total_implementation_cost <= implementation_budget.v ],
              opportunities |-> opportunity_metrics,
              executive_summary |->
                  generate_executive_summary(savings12, total_implementation_cost,
                                             Len(opportunities)),
              recommendations |->
                  generate_recommendations(opportunity_metrics, implementation_budget) ]

\* ------------------------------------------------ inputs of the calculator
RoiOpportunity(minutes, frequency, per, complexity, potential) ==
    [ description                 |-> "",
      time_saved_daily_minutes    |-> minutes,
      frequency_daily             |-> frequency,
      time_per_occurrence_minutes |-> per,
      implementation_complexity   |-> complexity,
      automation_potential        |-> potential ]

\* Opportunities that save nothing, that give their saving through frequency
\* and time per occurrence, that save 30 or 60 minutes, that save less than
\* nothing; one with the legacy names of complexity and potential.
RoiOpportunities ==
    {RoiOpportunity(t[1], t[2], t[3], c, p) :
        t \in {<<0, 1, 0>>, <<0, 3, 10>>, <<30, 1, 30>>, <<60, 1, 60>>, <<-30, 1, 0>>},
        c \in {"simple", "complex"}, p \in {"high", "low"}}
    \cup {RoiOpportunity(60, 1, 60, "medium", "medium")}

HourlyRates == {NoneV, Num(0), Num(10), Num(25), Num(50), Num(-25)}
Budgets == {NoneV, Num(5000)}

\* The analysis results handed to the calculator: opportunity lists, and what
\* the normaliser makes of the replies of the pipeline.
RoiAnalysisResults ==
    {[automation_opportunities |-> NamedWorkflows(l)] :
        l \in ListsOf(RoiOpportunities, MaxOpportunities)}
    \cup {parse_analysis_result(GptSuccess(p)) : p \in PipelinePayloads}
    \cup {[workflows |-> << >>]}

RoiRequests ==
    [ analysis_results : RoiAnalysisResults,
      hourly_rate : HourlyRates,
      implementation_budget : Budgets ]

NoRoiRequest ==
    [ analysis_results |-> [automation_opportunities |-> << >>],
      hourly_rate |-> NoneV, implementation_budget |-> NoneV ]
NoRoiResult == [success |-> FALSE]

\* ------------------------------------------- the singleton frame extractor
\* get_frame_extractor: one FrameExtractor for the process.  Its field
\* min_scene_change_threshold with the run that stored it last (0: __init__),
\* and the files of its temporary directory with the run that wrote each.
NewExtractor(mode) ==
    [ min_scene_change_threshold |->
          IF mode = "testing" THEN DEFAULT_SCENE_CHANGE_THRESHOLD
          ELSE QuickPreset.scene_threshold,
      threshold_writer |-> 0,
      files |-> {} ]
IdleExtractor == NewExtractor("testing")

\* temp_dir / f"{session_id}_recording.webm": one name per session.
TempFile(session_id) == session_id

\* analyze_recording as a function of what the extractor and the endpoint gave
\* it (lines 63-195).
\* The orchestrator's checks of the extraction (lines 71-82): the error the
\* run returns without calling the model, NoEnvelope when there are frames.
ExtractionFailure(fr) ==
    LET s0 == [steps_completed |-> << >>] IN
    IF fr.has_error
      THEN create_error_result(<<"Frame extraction failed", fr.error>>, s0)
    ELSE IF fr.frames = << >>
      THEN create_error_result(<<"No frames could be extracted from the recording">>, s0)
    ELSE NoEnvelope

PipelineResult(fr, resp) ==
    IF ExtractionFailure(fr) # NoEnvelope
      THEN ExtractionFailure(fr)
    ELSE LET s1 == StepCompleted([steps_completed |-> << >>], "frame_extraction")
             gr == AnalyzeFramesResult(resp)
         IN  IF ~gr.success
               THEN create_error_result(<<"AI analysis failed">> \o gr.error, s1)
             ELSE LET s2 == StepCompleted(s1, "gpt4v_analysis")
                      pr == parse_analysis_result(gr)
                  IN  IF ~pr.success
                        THEN create_error_result(<<"Result parsing failed">> \o pr.error, s2)
                        ELSE FinalResult(pr, StepCompleted(s2, "result_parsing"))

\* ------------------------------------------------ inputs of concurrent runs
RunIds == {1, 2}

\* Two recordings of their own.  The orchestrator calls the extractor without
\* extraction settings (orchestrator.py:66-69); the extractor also takes
\* settings of the caller, whose scene thresholds differ from run to run.
RunVideos ==
    [ raw_fps : {1}, total_frames : {MaxTotalFrames}, unreadable : {{}, {0}},
      unpreparable : {{}}, change_ratio : {25}, downloads : BOOLEAN ]
RunRequests ==
    [ duration_seconds : {MaxDuration},
      extraction_settings :
          {NoSettings} \cup
          {[Settings(Rate(1, 1), MaxTotalFrames) EXCEPT !.scene_threshold = t] :
              t \in {DEFAULT_SCENE_CHANGE_THRESHOLD, QuickPreset.scene_threshold}},
      mode : {"testing"} ]
RunResponses ==
    {Response(TRUE, FALSE, EmptyPayload)}
    \cup {Response(TRUE, TRUE, p) : p \in {q \in PipelinePayloads : q.natural_description}}

NewRun(session_id, v, req) ==
    [ session_id |-> session_id, video |-> v, request |-> req, pc |-> "pending",
      strategy |-> calculate_extraction_strategy(0, NoSettings, req.mode),
      frame_result |-> NoResult, attempt |-> 0, response |-> NoResponse,
      result |-> NoEnvelope,
      read_from |-> {},      \* the runs whose writes this run has read
      overtaken |-> FALSE ]   \* another run stored its threshold before this
                              \* run's extraction loop ran

\* ----------------------------------------------------------- initial states
\* No request has been built.
NoMessages == [built |-> FALSE, given |-> 0, embedded |-> << >>]

\* The positions of the frames that carry the key image_base64.
RECURSIVE FramesWithImage(_, _)
FramesWithImage(frames, i) ==
    IF i > Len(frames) THEN << >>
    ELSE (IF frames[i].image_base64 THEN <<i>> ELSE << >>)
         \o FramesWithImage(frames, i + 1)

\* _prepare_messages: one user message that embeds every frame with an
\* image_base64 key; a frame without the key is left out.
prepare_messages(frames) ==
    [built |-> TRUE, given |-> Len(frames), embedded |-> FramesWithImage(frames, 1)]

IdleClient ==
    /\ attempt = 0
    /\ response = NoResponse
    /\ messages = NoMessages
    /\ call_log = << >>
    /\ sleeps = << >>

IdleOrchestrator ==
    /\ pipeline_status = [steps_completed |-> << >>]
    /\ invoked = << >>
    /\ frame_result = NoResult
    /\ parsed_result = NoParsedResult
    /\ result = NoEnvelope

\* The state outside the pipeline run, before anything has happened.
IdleRoi == roi_request = NoRoiRequest /\ roi_result = NoRoiResult
IdleLoop == runs = << >> /\ extractor = IdleExtractor /\ loop_owner = 0
\* No analysis has been started for the recording.
NoAnalysis == [status |-> "none", error_message |-> << >>, results_stored |-> FALSE]
IdleApi == analysis_record = NoAnalysis /\ background_tasks = << >>
IdleExt == cancelled = FALSE /\ IdleRoi /\ IdleLoop /\ IdleApi

\* ------------------------------------------------- the sampler on its own
\* A recording whose stored duration is missing (analysis.py:147 passes
\* recording.get("duration_seconds", 0)) or wrong.
NonPositiveRequests ==
    [ duration_seconds    : {-1, 0},
      extraction_settings : {NoSettings, Settings(Rate(1, 1), 2)},
      mode                : Modes ]

InitSampler ==
    /\ IdleExt
    /\ \/ video \in Videos /\ request \in Requests
       \/ video = LongVideo /\ request \in LongRequests
       \/ video \in Videos /\ request \in NonPositiveRequests
    /\ has_client = TRUE
    /\ IdleClient
    /\ IdleOrchestrator
    /\ gpt_result = NoGptResult
    /\ pc = "sample"

\* One call of FrameExtractor.extract_frames_from_recording.
ExtractFrames ==
    /\ pc = "sample"
    /\ frame_result' = extract_frames_from_recording(video, request)
    /\ pc' = "sampled"
    /\ UNCHANGED <<ext, messages,
                   video, request, has_client, attempt, response, call_log, sleeps,
                   pipeline_status, invoked, gpt_result, parsed_result, result>>

NextSampler == ExtractFrames
SpecSampler == InitSampler /\ [][NextSampler]_vars

\* ----------------------------------------------- the normaliser on its own
InitNormalizer ==
    /\ IdleExt
    /\ video = LongVideo
    /\ request \in {r \in LongRequests : r.extraction_settings = NoSettings /\ r.mode = "testing"}
    /\ has_client = TRUE
    /\ IdleClient
    /\ IdleOrchestrator
    /\ gpt_result \in NormalizerInputs
    /\ pc = "normalize"

\* One call of ResultParser.parse_analysis_result.
ParseAnalysisResult ==
    /\ pc = "normalize"
    /\ parsed_result' = parse_analysis_result(gpt_result)
    /\ pc' = "normalized"
    /\ UNCHANGED <<ext, messages,
                   video, request, has_client, attempt, response, call_log, sleeps,
                   pipeline_status, invoked, frame_result, gpt_result, result>>

NextNormalizer == ParseAnalysisResult
SpecNormalizer == InitNormalizer /\ [][NextNormalizer]_vars

\* ------------------------------------------------------------- the pipeline
Init ==
    /\ IdleExt
    /\ video \in PipelineVideos
    /\ request \in PipelineRequests
    /\ has_client \in BOOLEAN
    /\ IdleClient
    /\ IdleOrchestrator
    /\ gpt_result = NoGptResult
    /\ pc = "pending"

\* analyze_recording, lines 52-61: the run starts with no step completed.
StartRun ==
    /\ pc = "pending"
    /\ pipeline_status' = [steps_completed |-> << >>]
    /\ pc' = "extracting"
    /\ UNCHANGED <<ext, messages,
                   video, request, has_client, attempt, response, call_log, sleeps,
                   invoked, frame_result, gpt_result, parsed_result, result>>

\* Step 1 (lines 64-94): the extractor is called; an error or an empty frame
\* list returns the error envelope, otherwise the step is recorded.
ExtractStage ==
    /\ pc = "extracting"
    /\ invoked' = Append(invoked, "frame_extraction")
    /\ LET fr == extract_frames_from_recording(video, request) IN
       /\ frame_result' = fr
       /\ IF fr.has_error
            THEN /\ result' = create_error_result(<<"Frame extraction failed", fr.error>>,
                                                  pipeline_status)
                 /\ pc' = "done"
                 /\ UNCHANGED pipeline_status
          ELSE IF fr.frames = << >>
            THEN /\ result' = create_error_result(
                                  <<"No frames could be extracted from the recording">>,
                                  pipeline_status)
                 /\ pc' = "done"
                 /\ UNCHANGED pipeline_status
          ELSE /\ pipeline_status' = StepCompleted(pipeline_status, "frame_extraction")
               /\ pc' = "analyzing"
               /\ UNCHANGED result
    /\ UNCHANGED <<ext, messages,
                   video, request, has_client, attempt, response, call_log, sleeps,
                   gpt_result, parsed_result>>

\* Step 2, the call (orchestrator line 109, analyze_frames lines 66-78): without
\* a client the failure comes back at once and the orchestrator returns the
\* error envelope (lines 115-121); otherwise _call_with_retry starts.
AnalyzeFrames ==
    /\ pc = "analyzing"
    /\ invoked' = Append(invoked, "gpt4v_analysis")
    /\ IF ~has_client
         THEN /\ gpt_result' = GptFailure(<<"OpenAI API not configured">>)
              /\ result' = create_error_result(
                               <<"AI analysis failed", "OpenAI API not configured">>,
                               pipeline_status)
              /\ pc' = "done"
              /\ UNCHANGED <<attempt, messages>>
         ELSE /\ attempt' = 0
              /\ messages' = prepare_messages(frame_result.frames)
              /\ pc' = "calling"
              /\ UNCHANGED <<gpt_result, result>>
    /\ UNCHANGED <<ext, video, request, has_client, response, call_log, sleeps,
                   pipeline_status, frame_result, parsed_result>>

\* One iteration of the loop of _call_with_retry whose call returns a response.
CallApiReturns ==
    /\ pc = "calling"
    /\ RetryLoopRuns(attempt, response)
    /\ \E r \in ApiResponses : response' = r
    /\ call_log' = Append(call_log, "response")
    /\ UNCHANGED <<ext, messages,
                   video, request, has_client, attempt, sleeps, pipeline_status, invoked,
                   frame_result, gpt_result, parsed_result, result, pc>>

\* One iteration of the loop of _call_with_retry whose call raises: the
\* failure is logged by its classification, and every attempt but the last is
\* followed by the backoff sleep.
CallApiFails ==
    /\ pc = "calling"
    /\ RetryLoopRuns(attempt, response)
    /\ \E e \in ApiErrors : call_log' = Append(call_log, e)
    /\ sleeps' = IF SleepsAfterFailure(attempt)
                   THEN Append(sleeps, BackoffDelay(attempt))
                   ELSE sleeps
    /\ attempt' = attempt + 1
    /\ UNCHANGED <<ext, messages,
                   video, request, has_client, response, pipeline_status, invoked,
                   frame_result, gpt_result, parsed_result, result, pc>>

\* _call_with_retry has returned (a response, or None after the last attempt):
\* analyze_frames builds its result (lines 80-98) and the orchestrator checks it
\* (lines 115-129).
AnalyzeReturns ==
    /\ pc = "calling"
    /\ ~RetryLoopRuns(attempt, response)
    /\ LET gr == AnalyzeFramesResult(response) IN
       /\ gpt_result' = gr
       /\ IF ~gr.success
            THEN /\ result' = create_error_result(<<"AI analysis failed">> \o gr.error,
                                                  pipeline_status)
                 /\ pc' = "done"
                 /\ UNCHANGED pipeline_status
            ELSE /\ pipeline_status' = StepCompleted(pipeline_status, "gpt4v_analysis")
                 /\ pc' = "parsing"
                 /\ UNCHANGED result
    /\ UNCHANGED <<ext, messages,
                   video, request, has_client, attempt, response, call_log, sleeps,
                   invoked, frame_result, parsed_result>>

\* Step 3 and 4 (lines 131-195): the parser is called; a failure returns the
\* error envelope, otherwise the step is recorded and the final result
\* returned.
ParseStage ==
    /\ pc = "parsing"
    /\ invoked' = Append(invoked, "result_parsing")
    /\ LET pr == parse_analysis_result(gpt_result) IN
       /\ parsed_result' = pr
       /\ IF ~pr.success
            THEN /\ result' = create_error_result(<<"Result parsing failed">> \o pr.error,
                                                  pipeline_status)
                 /\ UNCHANGED pipeline_status
            ELSE /\ pipeline_status' = StepCompleted(pipeline_status, "result_parsing")
                 /\ result' = FinalResult(pr, StepCompleted(pipeline_status, "result_parsing"))
    /\ pc' = "done"
    /\ UNCHANGED <<ext, messages,
                   video, request, has_client, attempt, response, call_log, sleeps,
                   frame_result, gpt_result>>

Next ==
    \/ StartRun
    \/ ExtractStage
    \/ AnalyzeFrames
    \/ CallApiReturns
    \/ CallApiFails
    \/ AnalyzeReturns
    \/ ParseStage

Spec == Init /\ [][Next]_vars

\* --------------------------------- the pipeline with stages that may raise
\* The stage called at each position of the run.
StageAt(p) ==
    IF p = "extracting" THEN "frame_extraction"
    ELSE IF p = "analyzing" THEN "gpt4v_analysis"
    ELSE "result_parsing"

\* A stage raises instead of returning (the repository's own stages catch
\* their exceptions; this is a collaborator that does not): the handler of
\* analyze_recording (lines 197-203) returns the error envelope.
StageRaises ==
    /\ pc \in {"extracting", "analyzing", "parsing"}
    /\ invoked' = Append(invoked, StageAt(pc))
    /\ \E exc \in {"RuntimeError", "KeyError"} :
          result' = HandlePipelineException(exc, pipeline_status)
    /\ pc' = "done"
    /\ UNCHANGED <<ext, messages,
                   video, request, has_client, attempt, response, call_log, sleeps,
                   pipeline_status, frame_result, gpt_result, parsed_result>>

NextRaising == Next \/ StageRaises
SpecRaising == Init /\ [][NextRaising]_vars

\* ------------------------------------------- the pipeline and a cancellation
\* The run is suspended in `await asyncio.sleep(delay)` after a failed call:
\* the one place of a run where the event loop serves another request.
SleepingInBackoff ==
    /\ pc = "calling"
    /\ attempt > 0
    /\ SleepsAfterFailure(attempt - 1)
    /\ ~response.present

\* DELETE /recordings/{recording_id} for the recording of the run: the files
\* and the database row go; nothing is told to the run.
DeleteRecording ==
    /\ SleepingInBackoff
    /\ ~cancelled
    /\ cancelled' = TRUE
    /\ UNCHANGED <<video, request, has_client, attempt, response, messages, call_log,
                   sleeps,
                   pipeline_status, invoked, frame_result, gpt_result, parsed_result,
                   result, pc, roi_request, roi_result, runs, extractor, loop_owner,
                   analysis_record, background_tasks>>

NextCancel == Next \/ DeleteRecording
SpecCancel == Init /\ [][NextCancel]_vars

\* ------------------------------------------------ the calculator on its own
InitRoi ==
    /\ video = LongVideo
    /\ request \in {r \in LongRequests : r.extraction_settings = NoSettings /\ r.mode = "testing"}
    /\ has_client = TRUE
    /\ IdleClient
    /\ IdleOrchestrator
    /\ gpt_result = NoGptResult
    /\ cancelled = FALSE
    /\ IdleLoop
    /\ IdleApi
    /\ roi_request \in RoiRequests
    /\ roi_result = NoRoiResult
    /\ pc = "price"

\* One call of ROICalculator.calculate_roi.
CalculateRoi ==
    /\ pc = "price"
    /\ \E ties \in FloatTies :
          roi_result' = calculate_roi(roi_request.analysis_results, roi_request.hourly_rate,
                                      roi_request.implementation_budget, ties)
    /\ pc' = "priced"
    /\ UNCHANGED <<video, request, has_client, attempt, response, messages, call_log,
                   sleeps,
                   pipeline_status, invoked, frame_result, gpt_result, parsed_result,
                   result, cancelled, roi_request, runs, extractor, loop_owner,
                   analysis_record, background_tasks>>

NextRoi == CalculateRoi
SpecRoi == InitRoi /\ [][NextRoi]_vars

\* ------------------------------------------- the vision client on its own
\* n frames as a caller of analyze_frames passes them; the frames at the
\* positions in missing have no image_base64 key.
ClientFrames(n, missing) ==
    [i \in 1..n |-> [ sequence_number |-> i - 1, frame_index |-> i - 1, fps |-> 1,
                      image_base64 |-> i \notin missing ]]

\* Short lists with and without images, and one list longer than the
\* configured maximum of frames per video.
ClientFrameLists ==
    {ClientFrames(n, missing) : n \in 0..MaxClientFrames,
                                missing \in SUBSET (1..MaxClientFrames)}
    \cup {ClientFrames(DEFAULT_MAX_FRAMES_PER_VIDEO + 1, {})}

InitClient ==
    /\ IdleExt
    /\ video = LongVideo
    /\ request \in {r \in LongRequests : r.extraction_settings = NoSettings /\ r.mode = "testing"}
    /\ has_client \in BOOLEAN
    /\ IdleClient
    /\ pipeline_status = [steps_completed |-> << >>]
    /\ invoked = << >>
    /\ \E frames \in ClientFrameLists :
          frame_result = [has_error |-> FALSE, error |-> "", frames |-> frames]
    /\ parsed_result = NoParsedResult
    /\ result = NoEnvelope
    /\ gpt_result = NoGptResult
    /\ pc = "client"

\* analyze_frames up to the await of _call_with_retry.
ClientAnalyzeFrames ==
    /\ pc = "client"
    /\ IF ~has_client
         THEN /\ gpt_result' = GptFailure(<<"OpenAI API not configured">>)
              /\ pc' = "client_done"
              /\ UNCHANGED <<attempt, messages>>
         ELSE /\ attempt' = 0
              /\ messages' = prepare_messages(frame_result.frames)
              /\ pc' = "calling"
              /\ UNCHANGED gpt_result
    /\ UNCHANGED <<ext, video, request, has_client, response, call_log, sleeps,
                   pipeline_status, invoked, frame_result, parsed_result, result>>

\* analyze_frames after _call_with_retry has returned.
ClientReturns ==
    /\ pc = "calling"
    /\ ~RetryLoopRuns(attempt, response)
    /\ gpt_result' = AnalyzeFramesResult(response)
    /\ pc' = "client_done"
    /\ UNCHANGED <<ext, messages, video, request, has_client, attempt, response, call_log,
                   sleeps, pipeline_status, invoked, frame_result, parsed_result, result>>

NextClient == ClientAnalyzeFrames \/ CallApiReturns \/ CallApiFails \/ ClientReturns
SpecClient == InitClient /\ [][NextClient]_vars

\* --------------------------------------- two runs on the one event loop
\* The variables of the single run, idle here.
single == <<video, request, has_client, attempt, response, messages, call_log, sleeps,
            pipeline_status, invoked, frame_result, gpt_result, parsed_result, result,
            pc, cancelled, roi_request, roi_result,
            analysis_record, background_tasks>>

InitConcurrent ==
    /\ video = LongVideo
    /\ request \in {r \in LongRequests : r.extraction_settings = NoSettings /\ r.mode = "testing"}
    /\ has_client = TRUE
    /\ IdleClient
    /\ IdleOrchestrator
    /\ gpt_result = NoGptResult
    /\ cancelled = FALSE
    /\ IdleRoi
    /\ IdleApi
    /\ pc = "concurrent"
    /\ \E v1 \in RunVideos, v2 \in RunVideos, q1 \in RunRequests, q2 \in RunRequests :
          runs = <<NewRun(1, v1, q1), NewRun(2, v2, q2)>>
    /\ extractor = IdleExtractor
    /\ loop_owner = 0

\* A run is a coroutine of the event loop: it runs from one await to the next
\* and the loop may resume any coroutine at an await.  These are the steps
\* that end at an await: the start (orchestrator.py:66, frame_extractor.py:73),
\* the strategy (frame_extractor.py:84), the clean-up with the return to the
\* orchestrator (orchestrator.py:109) and a failed call (gpt4v_client.py:215).
EndsAtAwait(step) == step \in {"start", "strategy", "cleanup", "call"}

\* Run r may take its step: the loop is free or r holds it.
MayRun(r, position) ==
    /\ r \in RunIds
    /\ runs[r].pc = position
    /\ loop_owner \in {0, r}

\* The run has returned without calling the model: its coroutine is over.
RunStops(run, fr) ==
    [run EXCEPT !.pc = "done", !.frame_result = fr, !.result = ExtractionFailure(fr)]

\* The run has returned after its call of the model.
RunReturns(run, resp) ==
    [run EXCEPT !.pc = "done", !.response = resp,
                !.result = PipelineResult(run.frame_result, resp)]

\* analyze_recording up to the await of _download_recording.
RunStart(r) ==
    /\ MayRun(r, "pending")
    /\ runs' = [runs EXCEPT ![r].pc = "download"]
    /\ loop_owner' = IF EndsAtAwait("start") THEN 0 ELSE r
    /\ UNCHANGED <<single, extractor>>

\* _download_recording: the recording is written to the temporary file of the
\* session; without it extract_frames_from_recording raises and returns its
\* error (lines 73-75, 118-125).
RunDownload(r) ==
    /\ MayRun(r, "download")
    /\ IF runs[r].video.downloads
         THEN /\ extractor' =
                   [extractor EXCEPT !.files =
                       {f \in @ : f.name # TempFile(runs[r].session_id)}
                       \cup {[name |-> TempFile(runs[r].session_id), writer |-> r]}]
              /\ runs' = [runs EXCEPT ![r].pc = "strategy"]
              /\ loop_owner' = r
         ELSE /\ runs' = [runs EXCEPT ![r] =
                     RunStops(@, [has_error |-> TRUE,
                                  error |-> "Failed to download recording",
                                  frames |-> << >>])]
              /\ loop_owner' = 0
              /\ UNCHANGED extractor
    /\ UNCHANGED single

\* _calculate_extraction_strategy: line 276 stores the threshold of this run
\* in the extractor.
RunStrategy(r) ==
    /\ MayRun(r, "strategy")
    /\ LET strategy == calculate_extraction_strategy(runs[r].request.duration_seconds,
                                                     runs[r].request.extraction_settings,
                                                     runs[r].request.mode)
       IN  /\ runs' = [runs EXCEPT ![r].strategy = strategy, ![r].pc = "extract"]
           /\ extractor' = [extractor EXCEPT
                               !.min_scene_change_threshold = strategy.scene_threshold,
                               !.threshold_writer = r]
    /\ loop_owner' = IF EndsAtAwait("strategy") THEN 0 ELSE r
    /\ UNCHANGED single

\* The file a run opens: the one of its session's name, if there is one.
FilesOf(run) == {f \in extractor.files : f.name = TempFile(run.session_id)}

\* The extraction loop reads self.min_scene_change_threshold when scene
\* detection is on (line 406).
ReadsThreshold(strategy) == strategy.scene_detection

\* What cv2.VideoCapture gives for a path with no file: no frames, no rate.
NoVideo ==
    [ raw_fps |-> 0, total_frames |-> 0, unreadable |-> {}, unpreparable |-> {},
      change_ratio |-> 0, downloads |-> FALSE ]

\* _extract_frames_smart: the run opens its temporary file, which holds the
\* recording of the run that wrote it, and extracts the frames with the
\* threshold the extractor holds now.  A frame that cannot be prepared
\* raises; extract_frames_from_recording returns the error.
RunExtract(r) ==
    /\ MayRun(r, "extract")
    /\ LET run     == runs[r]
           writers == {f.writer : f \in FilesOf(run)}
           source  == IF writers = {} THEN NoVideo
                      ELSE runs[CHOOSE w \in writers : TRUE].video
           out     == extract_frames_smart(source, run.strategy, run.request.mode,
                                           extractor.min_scene_change_threshold)
           reads   == writers \cup (IF ReadsThreshold(run.strategy)
                                      THEN {extractor.threshold_writer} ELSE {})
           seen    == [run EXCEPT !.read_from = @ \cup reads,
                                  !.overtaken = extractor.threshold_writer # r]
       IN  IF out.raised
             THEN /\ runs' = [runs EXCEPT ![r] =
                         RunStops(seen, [has_error |-> TRUE, error |-> out.exc,
                                         frames |-> << >>])]
                  /\ loop_owner' = 0
             ELSE /\ runs' = [runs EXCEPT ![r] =
                         [seen EXCEPT !.pc = "cleanup",
                                      !.frame_result =
                                          [has_error |-> FALSE, error |-> "",
                                           frames |-> out.val]]]
                  /\ loop_owner' = r
    /\ UNCHANGED <<single, extractor>>

\* os.remove(video_path), the return to the orchestrator and its checks of
\* the frames, up to the await of analyze_frames.
RunCleanup(r) ==
    /\ MayRun(r, "cleanup")
    /\ extractor' = [extractor EXCEPT !.files =
                        {f \in @ : f.name # TempFile(runs[r].session_id)}]
    /\ IF runs[r].frame_result.frames = << >>
         THEN /\ runs' = [runs EXCEPT ![r] = RunStops(@, @.frame_result)]
              /\ loop_owner' = 0
         ELSE /\ runs' = [runs EXCEPT ![r].pc = "call"]
              /\ loop_owner' = IF EndsAtAwait("cleanup") THEN 0 ELSE r
    /\ UNCHANGED single

\* One iteration of _call_with_retry whose call returns: the response is
\* parsed and the run returns its result.
RunCallReturns(r) ==
    /\ MayRun(r, "call")
    /\ \E resp \in RunResponses :
          runs' = [runs EXCEPT ![r] = RunReturns(@, resp)]
    /\ loop_owner' = 0
    /\ UNCHANGED <<single, extractor>>

\* One iteration of _call_with_retry whose call raises: the run sleeps, or
\* returns its error after the last attempt.
RunCallFails(r) ==
    /\ MayRun(r, "call")
    /\ IF SleepsAfterFailure(runs[r].attempt)
         THEN /\ runs' = [runs EXCEPT ![r].attempt = @ + 1]
              /\ loop_owner' = IF EndsAtAwait("call") THEN 0 ELSE r
         ELSE /\ runs' = [runs EXCEPT ![r] =
                     RunReturns([@ EXCEPT !.attempt = @ + 1], NoResponse)]
              /\ loop_owner' = 0
    /\ UNCHANGED <<single, extractor>>

NextConcurrent ==
    \E r \in RunIds :
        \/ RunStart(r)
        \/ RunDownload(r)
        \/ RunStrategy(r)
        \/ RunExtract(r)
        \/ RunCleanup(r)
        \/ RunCallReturns(r)
        \/ RunCallFails(r)

SpecConcurrent == InitConcurrent /\ [][NextConcurrent]_vars

\* ------------------------------------------------- api/v1/analysis.py
\* The parameters of AnalysisOrchestrator.analyze_recording besides self.
AnalyzeRecordingParameters == {"session_id", "duration_seconds", "analysis_type"}

\* The keyword arguments of the call in run_full_analysis_pipeline; the
\* recording and the duration are passed by position.
PipelineCallKeywords == {"analysis_type", "frame_extraction_settings"}

\* Python raises TypeError at the call when a keyword names no parameter.
CallRaisesTypeError(keywords, parameters) == ~(keywords \subseteq parameters)

\* A BackgroundTasks object with the pipeline task added.  The framework runs
\* the tasks of the object it injected into the endpoint, after the response;
\* an object the endpoint built itself is dropped when the endpoint returns.
TaskObject(injected) == [injected |-> injected, task |-> "run_full_analysis_pipeline"]

\* The record as start_analysis and retry_analysis reset it.
Processing(record) == [record EXCEPT !.status = "processing", !.error_message = << >>]

\* What the endpoint of the model does for the run of a task.
TaskResponses == RunResponses \cup {NoResponse}

InitApi ==
    /\ IdleExt
    /\ video \in PipelineVideos
    /\ request \in PipelineRequests
    /\ has_client = TRUE
    /\ IdleClient
    /\ IdleOrchestrator
    /\ gpt_result = NoGptResult
    /\ pc = "api"

\* start_analysis for a recording whose status is "completed".  An analysis
\* that is processing or completed is returned as it is (no step); otherwise
\* the record is created or reset and the task is added to the injected
\* BackgroundTasks.
StartAnalysis ==
    /\ pc = "api"
    /\ analysis_record.status \notin {"processing", "completed"}
    /\ analysis_record' = Processing(analysis_record)
    /\ background_tasks' = Append(background_tasks, TaskObject(TRUE))
    /\ UNCHANGED <<video, request, has_client, attempt, response, messages, call_log,
                   sleeps, pipeline_status, invoked, frame_result, gpt_result,
                   parsed_result, result, pc, cancelled, roi_request, roi_result,
                   runs, extractor, loop_owner>>

\* retry_analysis: accepted for a failed analysis only; the record is reset
\* and the task is added to a BackgroundTasks object built in the endpoint.
RetryAnalysis ==
    /\ pc = "api"
    /\ analysis_record.status = "failed"
    /\ analysis_record' = Processing(analysis_record)
    /\ background_tasks' = Append(background_tasks, TaskObject(FALSE))
    /\ UNCHANGED <<video, request, has_client, attempt, response, messages, call_log,
                   sleeps, pipeline_status, invoked, frame_result, gpt_result,
                   parsed_result, result, pc, cancelled, roi_request, roi_result,
                   runs, extractor, loop_owner>>

\* The tasks the framework runs.
RunnableTasks == {i \in DOMAIN background_tasks : background_tasks[i].injected}

\* The list without its i-th element.
WithoutTask(tasks, i) == SubSeq(tasks, 1, i - 1) \o SubSeq(tasks, i + 1, Len(tasks))

\* The record after the task: completed with the results for a success
\* envelope, failed with the error otherwise.
RecordOf(record, envelope) ==
    IF envelope.success
      THEN [record EXCEPT !.status = "completed", !.results_stored = TRUE]
      ELSE [record EXCEPT !.status = "failed", !.error_message = envelope.error]

\* run_full_analysis_pipeline, run by the framework: the orchestrator is
\* built (or the record is failed with a configuration error), analyze_recording
\* is called and the record is updated from its result; an exception of the
\* call is caught and fails the record with its message.
RunFullAnalysisPipeline ==
    /\ pc = "api"
    /\ \E i \in RunnableTasks : background_tasks' = WithoutTask(background_tasks, i)
    /\ \E orchestrator_built \in BOOLEAN, resp \in TaskResponses :
          IF ~orchestrator_built
            THEN /\ analysis_record' =
                       [analysis_record EXCEPT !.status = "failed",
                                               !.error_message = <<"Configuration error">>]
                 /\ UNCHANGED <<frame_result, result>>
          ELSE IF CallRaisesTypeError(PipelineCallKeywords, AnalyzeRecordingParameters)
            THEN /\ analysis_record' =
                       [analysis_record EXCEPT
                           !.status = "failed",
                           !.error_message =
                               <<"analyze_recording() got an unexpected keyword argument",
                                 "frame_extraction_settings">>]
                 /\ UNCHANGED <<frame_result, result>>
          ELSE LET fr == extract_frames_from_recording(video, request) IN
               /\ frame_result' = fr
               /\ result' = PipelineResult(fr, resp)
               /\ analysis_record' = RecordOf(analysis_record, PipelineResult(fr, resp))
    /\ UNCHANGED <<video, request, has_client, attempt, response, messages, call_log,
                   sleeps, pipeline_status, invoked, gpt_result, parsed_result, pc,
                   cancelled, roi_request, roi_result, runs, extractor, loop_owner>>

NextApi == StartAnalysis \/ RetryAnalysis \/ RunFullAnalysisPipeline
SpecApi == InitApi /\ [][NextApi]_vars
\* The framework runs a task that was handed to it.
SpecApiFair == SpecApi /\ WF_vars(RunFullAnalysisPipeline)

\* ------------------------------------------------------ claims: pipeline
IsPrefix(p, q) == Len(p) <= Len(q) /\ p = SubSeq(q, 1, Len(p))
StrictlyIncreasing(q) == \A i \in 1..(Len(q) - 1) : q[i] < q[i + 1]
RunFailed == result.returned /\ ~result.success

\* C1: in one call of analyze_frames the endpoint is invoked at most
\* max_retries times, whatever failures occur, and it is never invoked again
\* after one invocation has returned a response.
C1_BoundedModelCalls ==
    /\ Len(call_log) <= max_retries
    /\ \A i \in 1..(Len(call_log) - 1) : call_log[i] # "response"

\* Two calls failed, the third returned a response, and the run went on to its
\* end without a further call.
C1_Witness ==
    /\ pc = "done"
    /\ Len(call_log) = max_retries
    /\ call_log[max_retries] = "response"

AllRateLimited ==
    call_log # << >> /\ \A i \in 1..Len(call_log) : call_log[i] = "rate_limit"

FailedAtAnalyzing ==
    /\ RunFailed
    /\ result.error[1] = "AI analysis failed"
    /\ result.steps_completed = <<"frame_extraction">>

\* C2 as stated: when every model call of a run fails with a rate-limit
\* classification, the run is reported failed at the analyzing stage after
\* exactly 3 attempts and the backoff waits are 1, 2 and 4 times the base delay.
C2_ThreeWaits ==
    (pc = "done" /\ AllRateLimited)
    => /\ FailedAtAnalyzing
       /\ Len(call_log) = 3
       /\ sleeps = <<1 * retry_delay, 2 * retry_delay, 4 * retry_delay>>

\* C2 as amended: when every model call of a run fails with a rate-limit
\* classification, the run is reported failed at the analyzing stage after
\* exactly 3 attempts, and the backoff waits are increasing and equal to 1 and
\* 2 times the base delay: attempt k (0-indexed) is followed by a wait of
\* base_delay * 2^k only when another attempt follows, none after the last.
C2_TwoWaits ==
    (pc = "done" /\ AllRateLimited)
    => /\ FailedAtAnalyzing
       /\ Len(call_log) = 3
       /\ sleeps = <<1 * retry_delay, 2 * retry_delay>>
       /\ StrictlyIncreasing(sleeps)

C2_Witness ==
    pc = "done" /\ call_log = <<"rate_limit", "rate_limit", "rate_limit">>

\* C5: the stages are invoked in the order frame extraction, model analysis,
\* result parsing, each at most once and only after the previous stage has
\* been appended to steps_completed; steps_completed of a returned envelope is
\* a prefix of the three stages, and the full list exactly when success=true.
C5_StagesInOrderOnce ==
    /\ IsPrefix(invoked, StageOrder)
    /\ IsPrefix(pipeline_status.steps_completed, StageOrder)
    /\ Len(pipeline_status.steps_completed) <= Len(invoked)
    /\ Len(invoked) <= Len(pipeline_status.steps_completed) + 1
    /\ result.returned =>
          /\ result.steps_completed = pipeline_status.steps_completed
          /\ (result.success <=> result.steps_completed = StageOrder)

C5_Witness ==
    pc = "done" /\ result.returned /\ result.success /\ invoked = StageOrder

\* The stage a failure message names.
StageNamedBy(prefix) ==
    IF prefix \in {"Frame extraction failed",
                   "No frames could be extracted from the recording"}
      THEN "frame_extraction"
    ELSE IF prefix = "AI analysis failed" THEN "gpt4v_analysis"
    ELSE IF prefix = "Result parsing failed" THEN "result_parsing"
    ELSE "none"

\* The error message the stage itself returned.
StageError(stage) ==
    IF stage = "frame_extraction"
      THEN (IF frame_result.has_error THEN <<frame_result.error>> ELSE << >>)
    ELSE IF stage = "gpt4v_analysis" THEN gpt_result.error
    ELSE parsed_result.error

StageSucceeded(stage) ==
    IF stage = "frame_extraction"
      THEN ~frame_result.has_error /\ frame_result.frames # << >>
    ELSE IF stage = "gpt4v_analysis" THEN gpt_result.success
    ELSE parsed_result.success

\* C6: when a stage fails no later stage is invoked (the model is never called
\* when extraction failed or produced no frame), and the failure envelope has
\* success=false, names the stage that failed, carries that stage's error
\* message, and holds in steps_completed exactly the stages completed before.
C6_FailureShortCircuits ==
    RunFailed =>
      LET done   == result.steps_completed
          failed == StageOrder[Len(done) + 1]
      IN  /\ pc = "done"
          /\ IsPrefix(done, StageOrder) /\ Len(done) < Len(StageOrder)
          /\ \A i \in 1..Len(done) : StageSucceeded(StageOrder[i])
          /\ ~StageSucceeded(failed)
          /\ invoked = SubSeq(StageOrder, 1, Len(done) + 1)
          /\ (failed = "frame_extraction" => call_log = << >>)
          /\ (failed # "result_parsing" => parsed_result = NoParsedResult)
          /\ StageNamedBy(result.error[1]) = failed
          /\ Tail(result.error) = StageError(failed)

\* The model call failed on every attempt; the parser was never called.
C6_Witness ==
    /\ RunFailed
    /\ result.steps_completed = <<"frame_extraction">>
    /\ Len(call_log) = max_retries
    /\ result.error = <<"AI analysis failed", "Failed to get response from GPT-4V">>

\* C7: for every outcome of the three stages, a stage that raises included,
\* analyze_recording returns a success envelope or a failure envelope with an
\* error message; no exception escapes to the caller.
C7_AlwaysAnEnvelope ==
    /\ ~result.escaped
    /\ pc = "done" =>
          /\ result.returned
          /\ (~result.success => result.error # << >>)
    /\ pc # "done" => ~result.returned /\ ENABLED NextRaising

\* A stage raised and the caller got the failure envelope.
C7_Witness ==
    /\ pc = "done"
    /\ RunFailed
    /\ result.error[1] = "Analysis pipeline error"
    /\ invoked = <<"frame_extraction", "gpt4v_analysis">>

\* ------------------------------------------------------- claims: sampler

\* C3: for every duration_seconds > 0 and every strategy with max_frames >= 1
\* (a caller-supplied max_frames below 5 or above the extractor's own limit
\* included), the sampler returns at most strategy.max_frames frames.
C3_FramesWithinStrategyMax ==
    (pc = "sampled" /\ request.duration_seconds > 0
       /\ StrategyMaxFrames(request.extraction_settings, request.mode) >= 1)
    => Len(frame_result.frames)
         <= StrategyMaxFrames(request.extraction_settings, request.mode)

\* C4: for every duration_seconds > 0, every valid strategy and every native
\* frame rate, the frame_index values of the returned frames are strictly
\* increasing: no frame index is returned twice.
C4_FrameIndexStrictlyIncreasing ==
    (pc = "sampled" /\ request.duration_seconds > 0)
    => \A i \in 1..(Len(frame_result.frames) - 1) :
          frame_result.frames[i].frame_index < frame_result.frames[i + 1].frame_index

\* --------------------------------------------------- claims: normaliser
Range(q) == {q[i] : i \in 1..Len(q)}

\* C8: for every visible_in_frames list (duplicates and unsorted lists
\* included) the reconstructed duration is the number of distinct frame
\* numbers of the list; an empty list yields 0 without error.
C8_DurationCountsDistinctFrames ==
    (pc = "normalized" /\ gpt_result.success /\ gpt_result.analysis.natural_description)
    => /\ Len(parsed_result.workflow_steps) = Len(gpt_result.analysis.workflow_steps)
       /\ \A i \in 1..Len(parsed_result.workflow_steps) :
             parsed_result.workflow_steps[i].time_estimate_seconds
               = Cardinality(Range(gpt_result.analysis.workflow_steps[i].visible_in_frames))

\* C9: in both formats and for any numeric inputs the workflow priority_score
\* lies in [0,1] (thousandths) and the opportunity priority_score in [0,100]
\* (hundredths).
C9_PriorityScoresInRange ==
    pc = "normalized"
    => /\ \A i \in 1..Len(parsed_result.workflows) :
             /\ parsed_result.workflows[i].priority_score >= 0
             /\ parsed_result.workflows[i].priority_score <= 1000
       /\ \A i \in 1..Len(parsed_result.automation_opportunities) :
             /\ parsed_result.automation_opportunities[i].priority_score >= 0
             /\ parsed_result.automation_opportunities[i].priority_score <= 10000

\* The descriptions of the dict items of a list that parse on their own.
ParsableWorkflows(raw) ==
    {raw[i].description : i \in {j \in 1..Len(raw) :
        raw[j].dict /\ ~ParseWorkflowItem(raw[j]).raised}}
ParsableOpportunities(raw, natural) ==
    {raw[i].description : i \in {j \in 1..Len(raw) :
        raw[j].dict /\ ~(IF natural THEN ParseNaturalOpportunityItem(raw[j])
                         ELSE ParseOpportunityItem(raw[j])).raised}}

\* C10: if the field extraction of one item of a workflow or opportunity list
\* raises, only that item is skipped: the result has success=true and holds
\* every other item of the list that parses.
C10_BadItemSkippedOnly ==
    (pc = "normalized" /\ gpt_result.success)
    => LET a == gpt_result.analysis IN
       /\ parsed_result.success
       /\ {parsed_result.automation_opportunities[i].description :
              i \in 1..Len(parsed_result.automation_opportunities)}
            = ParsableOpportunities(a.automation_opportunities, a.natural_description)
       /\ (~a.natural_description =>
             {parsed_result.workflows[i].description : i \in 1..Len(parsed_result.workflows)}
               = ParsableWorkflows(a.workflows_detected))

\* ------------------------------------------- claims: replies and envelopes
\* C11: when the model call succeeds but the body of its response is not
\* valid JSON, the client returns success=true with the text under the key
\* raw_response, the normaliser returns a success envelope with empty
\* workflows and opportunities, and the run ends completed, not failed.
C11_NonJsonReplyCompletes ==
    (pc = "done" /\ response.present /\ response.wellformed /\ ~response.json)
    => /\ gpt_result.success
       /\ gpt_result.analysis.raw_response
       /\ parsed_result.success
       /\ parsed_result.workflows = << >>
       /\ parsed_result.automation_opportunities = << >>
       /\ result.returned /\ result.success
       /\ result.steps_completed = StageOrder

\* A run whose reply was plain text has ended with all three stages recorded.
C11_Witness ==
    /\ pc = "done"
    /\ response.present /\ response.wellformed /\ ~response.json
    /\ gpt_result.analysis.raw_response
    /\ result.success
    /\ result.steps_completed = StageOrder

\* C12: for every raw response with success=false the normaliser returns an
\* error envelope: success=false, the error message of the raw response
\* carried over, and empty workflows and automation_opportunities, whatever
\* else the raw response holds.
C12_FailedResponseGivesErrorEnvelope ==
    (pc = "normalized" /\ ~gpt_result.success)
    => /\ ~parsed_result.success
       /\ (gpt_result.error # << >> => parsed_result.error = gpt_result.error)
       /\ parsed_result.error # << >>
       /\ parsed_result.workflows = << >>
       /\ parsed_result.automation_opportunities = << >>

\* A failed response that carries workflows and opportunities has been
\* normalised.
C12_Witness ==
    /\ pc = "normalized"
    /\ ~gpt_result.success
    /\ gpt_result.error = <<"Test error">>
    /\ gpt_result.analysis.workflows_detected # << >>
    /\ gpt_result.analysis.automation_opportunities # << >>
    /\ parsed_result.error = <<"Test error">>

\* ------------------------------------------------- claims: ROI calculator
\* The call priced a list of at least one opportunity.
PricedOpportunities ==
    /\ pc = "priced"
    /\ AnalysisOpportunities(roi_request.analysis_results) # << >>

\* C13: whenever the annual savings computed by the calculator are <= 0
\* (zero minutes saved, zero or negative hourly rate) the payback period is
\* 0 months, per opportunity and in the aggregate result; the call returns a
\* result (nothing is divided by zero).
C13_NoSavingsNoPayback ==
    PricedOpportunities
    => /\ roi_result.success
       /\ \A i \in 1..Len(roi_result.opportunities) :
             roi_result.opportunities[i].annual_cost_savings <= 0
               => roi_result.opportunities[i].payback_months = 0
       /\ (roi_result.cost_savings.annual_usd <= 0
             => roi_result.implementation.payback_period_months = 0)

\* A list with an opportunity that loses money and one that saves nothing,
\* whose aggregate savings are negative, has been priced.
C13_Witness ==
    /\ PricedOpportunities
    /\ \E i \in 1..Len(roi_result.opportunities) :
          /\ roi_result.opportunities[i].annual_cost_savings < 0
          /\ roi_result.opportunities[i].payback_months = 0
    /\ \E i \in 1..Len(roi_result.opportunities) :
          roi_result.opportunities[i].annual_cost_savings = 0
    /\ roi_result.cost_savings.annual_usd < 0
    /\ roi_result.implementation.payback_period_months = 0

\* C14: whenever the opportunity list is non-empty but the aggregate annual
\* savings are <= 0, the result reports payback_period_months = 0 and the
\* implementation priority "none", never "immediate" or another priority
\* that calls for action.
C14_NoSavingsPriorityNone ==
    (PricedOpportunities /\ roi_result.cost_savings.annual_usd <= 0)
    => /\ roi_result.implementation.payback_period_months = 0
       /\ roi_result.implementation.priority = "none"

\* The roi_percentage of the aggregate result for the opportunities of the
\* request at another hourly rate.
RoiPercentAt(hourly_rate, ties) ==
    calculate_roi(roi_request.analysis_results, hourly_rate,
                  roi_request.implementation_budget, ties).implementation.roi_percentage

\* C15: for a fixed non-empty opportunity list and any two hourly rates
\* r1 < r2 (r1 = 0 and opportunities that save zero minutes included) the
\* roi_percent computed with r2 is strictly greater than the one computed
\* with r1.
C15_RoiIncreasesWithRate ==
    (PricedOpportunities /\ roi_request.hourly_rate.t = "num")
    => \A r2 \in {r \in HourlyRates : r.t = "num"} :
          roi_request.hourly_rate.v < r2.v
            => \A ties \in FloatTies :
                  RoiPercentAt(r2, ties) > roi_result.implementation.roi_percentage

\* C16: when the opportunity list is empty or missing the calculator returns
\* a result whose time savings, cost savings, implementation cost, payback
\* and ROI are all zero, whose opportunities and recommendations are empty
\* and whose executive_summary says that no opportunities were identified;
\* it returns, it does not raise.
C16_EmptyListZeroResult ==
    (pc = "priced" /\ AnalysisOpportunities(roi_request.analysis_results) = << >>)
    => /\ roi_result.success
       /\ \A f \in DOMAIN roi_result.time_savings : roi_result.time_savings[f] = 0
       /\ \A f \in {"daily_usd", "weekly_usd", "monthly_usd", "annual_usd"} :
             roi_result.cost_savings[f] = 0
       /\ roi_result.implementation.total_cost_usd = 0
       /\ roi_result.implementation.payback_period_months = 0
       /\ roi_result.implementation.roi_percentage = 0
       /\ roi_result.opportunities = << >>
       /\ roi_result.recommendations = << >>
       /\ roi_result.executive_summary.text
            = "No automation opportunities identified in this recording."

\* An analysis without the key automation_opportunities has been priced at
\* a rate of the caller's.
C16_Witness ==
    /\ pc = "priced"
    /\ "automation_opportunities" \notin DOMAIN roi_request.analysis_results
    /\ roi_request.hourly_rate = Num(50)
    /\ roi_result.success
    /\ roi_result.opportunities = << >>

\* The natural-format reply of the scenario: one opportunity that saves
\* "30 minutes daily" and is "simple" to automate.
ThirtyMinutesSimple(analysis) ==
    /\ analysis.natural_description
    /\ analysis.automation_opportunities
         = Named(<<NaturalOpportunity(TimeStr(30, "minutes daily"), Str("simple"))>>)

\* C17: a natural-format payload with one opportunity {timeSaved: "30 minutes
\* daily", complexity: "simple"}, normalised and then priced at hourly_rate
\* 25, yields automation_potential "high" for that opportunity and annual
\* savings of 30/60 * 0.95 * 250 * 25 = 2968.75 (in cents here).
C17_ThirtyMinutesScenario ==
    \A p \in {q \in PipelinePayloads : ThirtyMinutesSimple(q)} :
        (/\ pc = "priced"
         /\ roi_request.analysis_results = parse_analysis_result(GptSuccess(p))
         /\ roi_request.hourly_rate = Num(25))
        => /\ Len(roi_request.analysis_results.automation_opportunities) = 1
           /\ roi_request.analysis_results.automation_opportunities[1].automation_potential
                = "high"
           /\ Len(roi_result.opportunities) = 1
           /\ roi_result.opportunities[1].automation_potential = "high"
           /\ roi_result.opportunities[1].annual_cost_savings = 296875
           /\ roi_result.cost_savings.annual_usd = 296875

\* The normalised reply of the scenario has been priced at 25 an hour.
C17_Witness ==
    /\ pc = "priced"
    /\ roi_request.hourly_rate = Num(25)
    /\ \E p \in PipelinePayloads :
          /\ ThirtyMinutesSimple(p)
          /\ roi_request.analysis_results = parse_analysis_result(GptSuccess(p))
    /\ roi_result.opportunities[1].daily_minutes_saved = 285

\* ------------------------------------------------ claims: the two formats
\* The reply describes at least one workflow (legacy format) or application
\* (natural format).
DescribesWork(analysis) ==
    IF analysis.natural_description
      THEN analysis.applications # << >>
      ELSE \E i \in 1..Len(analysis.workflows_detected) :
              analysis.workflows_detected[i].dict

\* The field names of the summary of a legacy-format reply.
LegacySummaryFields ==
    DOMAIN parse_analysis_result(GptSuccess(
        Payload(FALSE, NamedWorkflows(<<WorkflowDict("data_entry", NoHits, Num(900))>>),
                << >>, << >>, << >>))).summary

\* C18: for a legacy-format payload and a natural-format payload describing
\* equivalent content (at least one workflow or application) the normaliser
\* returns for both a non-empty workflows list and a summary with the same
\* set of field names: the field names do not tell which format was parsed.
C18_SummaryFieldsFormatAgnostic ==
    (/\ pc = "normalized"
     /\ gpt_result.success
     /\ DescribesWork(gpt_result.analysis)
     /\ parsed_result.success)
    => /\ parsed_result.workflows # << >>
       /\ DOMAIN parsed_result.summary = LegacySummaryFields

\* Without the summary: both formats give a non-empty workflows list.
C18_WorkflowsNonEmpty ==
    (/\ pc = "normalized"
     /\ gpt_result.success
     /\ DescribesWork(gpt_result.analysis)
     /\ parsed_result.success)
    => parsed_result.workflows # << >>

\* ------------------------------------------------- claims: cancellation
\* C20: if the caller cancels a run while a stage is in progress, the
\* orchestrator does not start the next stage: after the cancellation no
\* stage is called and no step is recorded, and a model response that
\* arrives after the cancellation is not parsed into a result.
C20_CancelledRunStops ==
    [][cancelled => /\ invoked' = invoked
                    /\ pipeline_status' = pipeline_status
                    /\ parsed_result' = parsed_result]_vars

\* No run cancelled during its backoff goes on to the end, with the response of
\* the later call parsed and the success envelope returned.
C20_NoCancelledRunCompletes ==
    ~(/\ cancelled
      /\ pc = "done"
      /\ response.present
      /\ parsed_result.success
      /\ result.success
      /\ result.steps_completed = StageOrder)

\* ------------------------------------------------- claims: concurrency
\* The frames a run extracts when it executes alone.
FramesAlone(run) == extract_frames_from_recording(run.video, run.request)

\* C19: two pipeline runs processed concurrently share no state that matters:
\* no run reads a value (the temporary file, the extractor's threshold)
\* written by the other run, and under every interleaving the frames and the
\* result of a run that has returned are those of the run executed alone.
C19_RunsAreIndependent ==
    pc = "concurrent" =>
        \A r \in RunIds :
            /\ runs[r].read_from \subseteq {r}
            /\ runs[r].pc \in {"cleanup", "call"} =>
                   runs[r].frame_result = FramesAlone(runs[r])
            /\ runs[r].pc = "done" =>
                   /\ runs[r].frame_result = FramesAlone(runs[r])
                   /\ runs[r].result = PipelineResult(FramesAlone(runs[r]), runs[r].response)

\* Both runs have returned with frames and a parsed result; the other run
\* stored a different threshold in the extractor between the strategy and
\* the extraction loop of run 1.
C19_Witness ==
    /\ pc = "concurrent"
    /\ \A r \in RunIds : runs[r].pc = "done" /\ runs[r].result.success
    /\ runs[1].overtaken
    /\ runs[1].strategy.scene_threshold # runs[2].strategy.scene_threshold
    /\ runs[1].frame_result.frames # << >>

\* ------------------------------------------------- claims: error classes
\* The classifications the claim names as not retryable.
NonRetryable == {"invalid_request_error", "context_length"}

\* C21: a model call that fails with a malformed-request or a
\* context-length-exceeded classification is not retried: it is the last
\* call of the run and no backoff wait follows it.
C21_NonRetryableFailsOnce ==
    \A i \in DOMAIN call_log :
        call_log[i] \in NonRetryable => (i = Len(call_log) /\ Len(sleeps) < i)

\* ------------------------------------------------- claims: sampler errors
\* C22: the sampler fails with an extraction error and returns no frames
\* whenever duration_seconds <= 0.
C22_NonPositiveDurationFails ==
    (pc = "sampled" /\ request.duration_seconds <= 0)
    => (frame_result.has_error /\ frame_result.frames = << >>)

\* ------------------------------------------------- claims: vision client
\* C23: a request whose frame count exceeds the configured maximum fails
\* fast: the client returns a failure without invoking the endpoint; and the
\* client never sends a request that embeds only a part of the frames given.
C23_OverflowFailsFast ==
    /\ Len(frame_result.frames) > DEFAULT_MAX_FRAMES_PER_VIDEO
         => /\ call_log = << >>
            /\ pc = "client_done" => ~gpt_result.success
    /\ (messages.built /\ call_log # << >>)
         => Len(messages.embedded) = messages.given

\* The first half alone: no endpoint call for a list longer than the maximum.
C23_NoCallOnOverflow ==
    Len(frame_result.frames) > DEFAULT_MAX_FRAMES_PER_VIDEO => call_log = << >>

\* The second half alone: every request sent embeds all the frames given.
C23_NoSubsetSent ==
    (messages.built /\ call_log # << >>) => Len(messages.embedded) = messages.given

\* ------------------------------------------------- claims: formats
\* C24: a successful payload is parsed as the natural format (the result
\* carries format = "natural") exactly when it has the key
\* natural_description; every other payload that parses is given the legacy
\* result, its workflows taken from workflows_detected and its opportunities
\* from automation_opportunities.
C24_FormatByNaturalDescription ==
    (pc = "normalized" /\ gpt_result.success /\ parsed_result.success)
    => LET analysis == gpt_result.analysis IN
       /\ parsed_result.format = "natural" <=> analysis.natural_description
       /\ ~analysis.natural_description
            => /\ parsed_result.workflows = parse_workflows(analysis.workflows_detected).val
               /\ parsed_result.automation_opportunities
                    = parse_opportunities(analysis.automation_opportunities).val

\* A payload with the key and nothing else is given the natural result.
C24_Witness ==
    /\ pc = "normalized"
    /\ gpt_result.success
    /\ gpt_result.analysis.natural_description
    /\ gpt_result.analysis.applications = << >>
    /\ parsed_result.success
    /\ parsed_result.format = "natural"

\* ------------------------------------------------- claims: frame ranges
\* The frames a range covers.
Covered(range) == range.start .. range.end

\* The ranges are the maximal contiguous sub-ranges of the set frames: in
\* increasing order, disjoint and not adjacent, covering exactly the set,
\* each with the duration of its length.
MaximalRangesOf(ranges, frames) ==
    /\ \A i \in 1..Len(ranges) :
          /\ ranges[i].start <= ranges[i].end
          /\ ranges[i].duration = ranges[i].end - ranges[i].start + 1
    /\ \A i \in 1..(Len(ranges) - 1) : ranges[i].end + 1 < ranges[i + 1].start
    /\ UNION {Covered(ranges[i]) : i \in 1..Len(ranges)} = frames

\* C25: for every frame list (unsorted lists and lists with duplicates
\* included) the continuous ranges are the maximal contiguous sub-ranges of
\* the list's set of frame numbers, and the sum of their durations is the
\* number of distinct frames.
C25_RangesAreMaximal ==
    (pc = "normalized" /\ parsed_result.success /\ parsed_result.format = "natural")
    => \A i \in 1..Len(parsed_result.workflow_steps) :
          LET step == parsed_result.workflow_steps[i] IN
          /\ MaximalRangesOf(step.frame_ranges, Range(step.visible_in_frames))
          /\ SumField(step.frame_ranges, "duration")
               = Cardinality(Range(step.visible_in_frames))

\* The same for lists without duplicates, sorted or not.
C25_RangesOfDistinctFrames ==
    (pc = "normalized" /\ parsed_result.success /\ parsed_result.format = "natural")
    => \A i \in 1..Len(parsed_result.workflow_steps) :
          LET step == parsed_result.workflow_steps[i] IN
          Cardinality(Range(step.visible_in_frames)) = Len(step.visible_in_frames)
          => /\ MaximalRangesOf(step.frame_ranges, Range(step.visible_in_frames))
             /\ SumField(step.frame_ranges, "duration")
                  = Cardinality(Range(step.visible_in_frames))

\* ------------------------------------------------- claims: ranking
\* The place of an item in the model's payload, by the name it was given.
NamePosition(name) == CHOOSE i \in 1..Len(ItemNames) : ItemNames[i] = name

\* The list is in non-increasing order of priority_score, and items of equal
\* score are in the order of the payload.
RankedStably(opps) ==
    \A i, j \in 1..Len(opps) :
        i < j => /\ opps[i].priority_score >= opps[j].priority_score
                 /\ opps[i].priority_score = opps[j].priority_score
                      => NamePosition(opps[i].description)
                           < NamePosition(opps[j].description)

\* C26: in both formats the opportunities returned by the normalizer are
\* ordered by non-increasing priority_score, and opportunities of equal
\* priority_score appear in the order of the model's payload.
C26_OpportunitiesRankedStably ==
    (pc = "normalized" /\ parsed_result.success)
    => RankedStably(parsed_result.automation_opportunities)

\* The same for the legacy format alone.
C26_LegacyRankedStably ==
    (pc = "normalized" /\ parsed_result.success /\ parsed_result.format # "natural")
    => RankedStably(parsed_result.automation_opportunities)

\* ------------------------------------------------- claims: cost tiers
\* C27: the calculator prices the implementation of every opportunity by the
\* tier of its implementation_complexity: low costs 5000, medium 15000 and
\* high 50000.
C27_CostByComplexityTier ==
    (pc = "priced" /\ roi_result.success)
    => \A i \in 1..Len(roi_result.opportunities) :
          LET m == roi_result.opportunities[i] IN
          /\ m.implementation_complexity = "low" => m.implementation_cost = 5000
          /\ m.implementation_complexity = "medium" => m.implementation_cost = 15000
          /\ m.implementation_complexity = "high" => m.implementation_cost = 50000

\* The tiers under the names of the natural format.
C27_CostByNaturalTier ==
    (pc = "priced" /\ roi_result.success)
    => \A i \in 1..Len(roi_result.opportunities) :
          LET m == roi_result.opportunities[i] IN
          /\ m.implementation_complexity = "simple" => m.implementation_cost = 5000
          /\ m.implementation_complexity = "moderate" => m.implementation_cost = 15000
          /\ m.implementation_complexity = "complex" => m.implementation_cost = 50000

\* ------------------------------------------------- claims: priority
\* C30: for every non-empty opportunity list and every hourly rate the
\* aggregate priority is immediate, high, medium or low: "strategic" is
\* never returned.
C30_PriorityNeverStrategic ==
    PricedOpportunities
    => roi_result.implementation.priority \in {"immediate", "high", "medium", "low"}

\* A result whose payback is longer than 12 months, the only way to the test
\* for "strategic".
C30_Witness ==
    /\ PricedOpportunities
    /\ roi_result.implementation.payback_period_months > 120
    /\ roi_result.cost_savings.annual_usd > 0
    /\ roi_result.implementation.priority = "low"

\* ------------------------------------------------- claims: api
\* retry_analysis was accepted: the record is processing and the object the
\* endpoint built holds the task.
RetryAccepted ==
    /\ analysis_record.status = "processing"
    /\ \E i \in DOMAIN background_tasks : ~background_tasks[i].injected

\* C28: after retry_analysis is accepted for a failed analysis the pipeline
\* is run again and the record eventually reaches "completed" or "failed".
C28_RetryReachesFinalStatus ==
    RetryAccepted ~> analysis_record.status \in {"completed", "failed"}

\* The same for start_analysis: the record it resets does reach "completed"
\* or "failed".
C28_StartReachesFinalStatus ==
    (analysis_record.status = "processing" /\ RunnableTasks # {})
        ~> analysis_record.status \in {"completed", "failed"}

\* C29: when all stages succeed the task ends with the record "completed" and
\* the results stored; the record is "failed" only when the orchestrator
\* returned the failure of a stage.
C29_FailedOnlyWhenStageFailed ==
    /\ (result.returned /\ result.success)
         => (analysis_record.status = "completed" /\ analysis_record.results_stored)
    /\ (analysis_record.status = "failed"
        /\ analysis_record.error_message # <<"Configuration error">>)
         => (result.returned /\ ~result.success)

\* No run of the task stores results.
C29_NeverCompleted == analysis_record.status # "completed"

=============================================================================
